---- MODULE Spec2Model ----
(***************************************************************************)
(* Model of the cryptobro jobs.                                            *)
(*                                                                         *)
(* Part 1 (specification Spec): the date-keyed sheet jobs                  *)
(*   update_morpho_sheet.py, update_sky_money_sheet.py, update_gs_sheet.py *)
(*   One invocation = __main__: fetch the balance, then append_row, whose  *)
(*   four worksheet requests (two reads, two writes) are separate steps.   *)
(*   Every request can fail (gspread raises).                              *)
(*                                                                         *)
(* Part 2 (specification SpecRetry): cc_wallet_6165.py                     *)
(*   update_cell_with_retry, execute_binance_api_with_retry and their      *)
(*   caller get_binance_data; one step per invocation of the operation.    *)
(*                                                                         *)
(* Part 3 (specifications SpecScrape, SpecAlpRun): alp_price_scraper.py    *)
(*   SpecScrape: scrape_alp_data's price strategies over a rendered        *)
(*   document, and the row that run() then appends.                        *)
(*   SpecAlpRun: the whole of run(), from load_environment on, over        *)
(*   documents that vary in their TVL and APY statements, twice in one     *)
(*   scheduling period.                                                    *)
(*                                                                         *)
(* Part 4 (specification SpecDerive): the derivations of                   *)
(*   update_llp_sheet.py (fetch_lighter_data) and update_gs_sheet.py       *)
(*   (get_current_balance) over their inputs.                              *)
(*                                                                         *)
(* Part 5 (specification SpecMirror): deposit_withdraw_sheet_updater.py,   *)
(*   the clear of the sheet, the read of Firebase and the write.           *)
(*                                                                         *)
(* Part 6 (specification SpecHist): db_deposit_withdraw_history.py, the    *)
(*   read of the existing transactions and process_transactions.           *)
(*                                                                         *)
(* Part 7 (specification SpecEdgex): edgex_google_sheet.py,                *)
(*   fill_google_sheet over the snapshots of the API.                      *)
(*                                                                         *)
(* Part 8 (specification SpecLlp): update_llp_sheet.py, fill_google_sheet  *)
(*   on a worksheet with or without a header row.                          *)
(*                                                                         *)
(* Part 9 (specification SpecConc): two invocations of one date-keyed      *)
(*   job at the same time on one worksheet.                                *)
(*                                                                         *)
(* Part 10 (specification SpecSched): scheduler.py with the daily job of   *)
(*   update_morpho_sheet.py.                                               *)
(*                                                                         *)
(* Part 11 (specification SpecApy): the APY deriver of the specification   *)
(*   over price histories and their permutations.                          *)
(*                                                                         *)
(* Part 12 (specification SpecCc): cc_wallet_6165.py, process_sheet_data   *)
(*   over the rows of the worksheet, one step per row.                     *)
(*                                                                         *)
(* Part 13 (specification SpecJobs): scheduler.py and main.py launching    *)
(*   their subprocesses, with cc_wallet_6165.py as in Part 12.             *)
(***************************************************************************)
EXTENDS Integers, Sequences, FiniteSets, TLC

(***************************************************************************)
(* Bounds of the model.                                                    *)
(***************************************************************************)
\* rows of the worksheet grid that the model keeps
MaxRow == 3
\* last GMT+7 day (counted from day 0) the clock reaches
MaxDay == 2
\* largest max_attempts a caller passes to a retry function
MaxAttempts == 3
\* price-like places in the text of a document
MaxText == 2
\* script tags of a document
MaxScripts == 1
\* transactions Firebase can hold
MaxTx == 3
\* runs of one job in a behaviour
MaxRuns == 2
\* transactions in the histories Binance returns to one run
MaxHist == 2
\* distinct snapshot times the EdgeX API returns
MaxTs == 2
\* records in one list of the EdgeX API
MaxList == 2
\* the hours a pending job of the scheduler waits for the jobs before it
MaxDelay == 2
\* the longest price history given to the APY deriver
MaxSamples == 3
\* rows of the worksheet 'Cash&Carry' that the model keeps
MaxCcRow == 4

VARIABLES
    sheet,      \* the worksheet: row -> column -> cell text ("" = empty)
    job,        \* which job owns the worksheet: "Morpho", "Sky Money", "GS"
    now,        \* the clock, in hours UTC
    pc,         \* position of the invocation
    balance,    \* __main__: balance returned by the fetch
    date_str,   \* append_row: date_str
    row_num,    \* append_row: row_num
    outcome,    \* how the last finished invocation ended
    clean,      \* no worksheet request of the invocation in progress has failed
    prev,       \* the last finished append_row: its date, its outcome, whether all
                \* its requests succeeded, and (pred) the outcome of the append_row
                \* before it when that one ran on the same date with no failed request
    reads       \* GS: what get_usds_balance and get_vault_balance_usds returned to
                \* the get_current_balance of the invocation in progress

VARIABLES
    rkind,        \* "cell": update_cell_with_retry, "api": execute_binance_api_with_retry
    max_attempts, \* the max_attempts argument
    stage,        \* which operation is retried: "cell", "positions", "price"
    script,       \* the operation: it fails on its first k calls (by raising, or by
                  \* returning an error reply), then returns value
    attempt,      \* the loop variable
    calls,        \* invocations of the operation in this call of the retry function
    sleeps,       \* time.sleep calls in this call of the retry function
    rpc,          \* "start", "loop", "returned", "off"
    rresult,      \* what the retry function returned
    succeeded,    \* an invocation of the operation returned without raising
    gbd           \* get_binance_data: "none", "returned", "APIError"

VARIABLES
    doc,        \* the rendered document: its price-like text places and its scripts
    spc,        \* run(): "start", "env", "ready", "fetched", "scraped", "balanced",
                \* "written", "failed", "off"
    result,     \* scrape_alp_data: result['price'] and the strategy that set it
    alp_row,    \* the price cell of the row update_google_sheet appended, if any
    env,        \* the environment variables of the ALP job
    data,       \* result['tvl'], result['apy'] and data['alp_amount']
    alp_sheet,  \* the rows of worksheet 'ALP Price'
    invocation, \* which invocation of the period this is: 1 or 2 (0 = off)
    exit_code   \* exit status of the last finished process (-1 = none yet)

VARIABLES
    llp_in,     \* fetch_lighter_data: the account's shares, the pools' replies,
                \* OTHER_POOL_CURRENT_VALUE and the price endpoints' reply
    llp_out,    \* fetch_lighter_data: "none", "raise", or the returned values
    gs_in,      \* get_current_balance: the wallet read and the vault read
    gs_out,     \* get_current_balance: "none", or <<>> (None) / <<total>>
    dpc         \* "inputs", "derived", "off"

VARIABLES
    ref_data,     \* Firebase node new_deposit_withdraw_history_9m: the transactions
    dw_sheet,     \* worksheet 'Deposit & Withdrawal': the ids in rows 2.. of column B
    dw_found,     \* dw_sheet as the run in progress found it
    transactions, \* deposit_withdraw_sheet_updater: transactions
    dw_fetch,     \* how ref.get() of the run ended: "none", "ok", "failed"
    dw_pc,        \* "start", "cleared", "fetched", "done", "exited", "off"
    dw_runs,      \* runs of deposit_withdraw_sheet_updater started so far
    dw_row1,      \* row 1 of the worksheet, the header
    dw_update     \* how the write of this run ended: "none", "ok", "not empty", "failed"

VARIABLES
    fb,           \* Firebase node new_deposit_withdraw_history_9m as
                  \* db_deposit_withdraw_history sees it: the pushed records in order
    existing_transactions, \* main: what fetch_existing_transactions returned
    history,      \* what Binance returns for the wallets: the transactions in the
                  \* order main processes them
    h_i,          \* index in history of the transaction processed next
    h_last,       \* what became of the transaction processed last
    h_pc,         \* "start", "process", "done", "off"
    h_runs        \* runs of db_deposit_withdraw_history started so far

VARIABLES
    e_sheet,      \* worksheet 'EdgeX': row -> its cells A, D and E ("" = empty)
    api_data,     \* edgex_google_sheet: the list fetch_edgex_vault_trends returned
    existing_timestamps, \* fill_google_sheet: existing_timestamps
    e_i,          \* index in api_data of the record processed next
    e_pc,         \* "start", "headers", "fill", "loop", "done", "off"
    e_row,        \* the row fill_google_sheet wrote last (0 = none)
    e_runs,       \* runs of edgex_google_sheet started so far
    e_trace       \* this run: the rows it wrote, whether a call failed, whether the
                  \* loop was aborted; prev: how the run before it ended

VARIABLES
    l_sheet,      \* worksheet 'LLP': row -> its cell A and its cells B-L ("" = empty)
    l_day,        \* the calendar day in Asia/Bangkok
    api_llp,      \* update_llp_sheet __main__: the "date" of api_data (<<>> = None)
    l_pc,         \* "start", "fill", "find", "write", "done", "off"
    l_row,        \* fill_google_sheet: empty_row
    l_clean,      \* no worksheet request of any run so far has failed
    l_days,       \* the days on which the runs so far were started
    l_runs        \* runs of update_llp_sheet started so far

VARIABLES
    c_sheet,      \* the worksheet two concurrent invocations of one job work on
    c_job,        \* the job: "Morpho", "Sky Money", "GS"
    procs         \* invocation -> its position, balance, date_str, row_num and how it ended

VARIABLES
    s_pc,         \* scheduler.main: "main" before the loop, "loop" in it
    s_now,        \* the time, in hours (UTC)
    s_tz,         \* the offset of the machine's local time from UTC, in hours
    s_next_run,   \* the next_run of the job of run_update_morpho_sheet (UTC hours)
    s_sheet,      \* the worksheet 'Morpho'
    s_period,     \* the running GMT+7 day: its invocations so far
    s_ended       \* the GMT+7 day that ended last, as it ended

VARIABLES
    a_series,     \* the price history given to the APY deriver: (time, price) samples
    a_P,          \* the lookback period, in days
    a_shuffled,   \* the same samples in another order
    a_out,        \* the result for a_series
    a_out2,       \* the result for a_shuffled
    a_pc,         \* "in", "shuffled", "done", "retried"
    a_retry       \* the caller's retry: the lookback it used and the result

VARIABLES
    cc_sheet,        \* worksheet 'Cash&Carry': row -> its columns A-D, K-M and the rest
    cc_all_values,   \* process_sheet_data: all_values
    cc_positions,    \* coinm_positions, as get_binance_data returned them
    cc_i,            \* process_sheet_data: row_index of the next pass of the loop
    cc_pc,           \* "idle", "start", "loop", "done", "failed", "off"
    processed_count, \* process_sheet_data: processed_count
    skipped_count,   \* process_sheet_data: skipped_count
    cc_log           \* row -> how its pass ended and what its three cell writes returned

VARIABLES
    j_pc,         \* scheduler.main: "startup", "loop", "pending", "off"
    j_queue,      \* the jobs main runs now: the startup runs, or the pending jobs
    j_k,          \* the position in j_queue of the job run next
    live,         \* the subprocesses that have been started and have not exited
    m_i,          \* main.py: the position in scripts of the script run next (0 = not running)
    attempted,    \* the jobs of j_queue whose run function has been called
    m_ran,        \* the scripts for which the last main.py called run_script
    j_fail,       \* the position in j_queue of the first job that failed (0 = none)
    m_fail        \* the position in scripts of the first script that failed (0 = none)

sheetVars == <<sheet, job, now, pc, balance, date_str, row_num,
               outcome, clean, prev, reads>>

retryVars == <<rkind, max_attempts, stage, script, attempt, calls, sleeps,
               rpc, rresult, succeeded, gbd>>

scrapeVars == <<doc, spc, result, alp_row, env, data, alp_sheet,
                invocation, exit_code>>

deriveVars == <<llp_in, llp_out, gs_in, gs_out, dpc>>

mirrorVars == <<ref_data, dw_sheet, dw_found, transactions, dw_fetch, dw_pc, dw_runs,
               dw_row1, dw_update>>

\* the variables of the parts below Part 4
histVars == <<fb, existing_transactions, history, h_i, h_last, h_pc, h_runs>>

edgexVars == <<e_sheet, api_data, existing_timestamps, e_i, e_pc, e_row, e_runs, e_trace>>

llpVars == <<l_sheet, l_day, api_llp, l_pc, l_row, l_clean, l_days, l_runs>>

concVars == <<c_sheet, c_job, procs>>

schedVars == <<s_pc, s_now, s_tz, s_next_run, s_sheet, s_period, s_ended>>

apyVars == <<a_series, a_P, a_shuffled, a_out, a_out2, a_pc, a_retry>>

ccVars == <<cc_sheet, cc_all_values, cc_positions, cc_i, cc_pc,
           processed_count, skipped_count, cc_log>>

jobVars == <<j_pc, j_queue, j_k, live, m_i, attempted, m_ran, j_fail, m_fail>>

moreVars == <<mirrorVars, histVars, edgexVars, llpVars, concVars, schedVars, apyVars, ccVars, jobVars>>

\* for each of the parts after Part 4, the variables of the other ones
notMirror == <<histVars, edgexVars, llpVars, concVars, schedVars, apyVars, ccVars, jobVars>>

notHist == <<mirrorVars, edgexVars, llpVars, concVars, schedVars, apyVars, ccVars, jobVars>>

notEdgex == <<mirrorVars, histVars, llpVars, concVars, schedVars, apyVars, ccVars, jobVars>>

notLlp == <<mirrorVars, histVars, edgexVars, concVars, schedVars, apyVars, ccVars, jobVars>>

notConc == <<mirrorVars, histVars, edgexVars, llpVars, schedVars, apyVars, ccVars, jobVars>>

notSched == <<mirrorVars, histVars, edgexVars, llpVars, concVars, apyVars, ccVars, jobVars>>

notApy == <<mirrorVars, histVars, edgexVars, llpVars, concVars, schedVars, ccVars, jobVars>>

notCc == <<mirrorVars, histVars, edgexVars, llpVars, concVars, schedVars, apyVars, jobVars>>

notJobs == <<mirrorVars, histVars, edgexVars, llpVars, concVars, schedVars, apyVars>>

\* the variables of Parts 1 to 4
baseVars == <<sheetVars, retryVars, scrapeVars, deriveVars>>

vars == <<baseVars, moreVars>>

(***************************************************************************)
(* The worksheet.                                                          *)
(***************************************************************************)
Rows == 1..MaxRow
\* columns A..K as 1..11
Cols == 1..11
\* A-D, the range of the first update of append_row
RangeAD == 1..4
\* F, the range of the second update of append_row
RangeF == {6}

Jobs == {"Morpho", "Sky Money", "GS"}

\* the balance (in cents) a successful fetch returns
Balances == {125}

\* what one balance read of the GS job returns: None (the read failed), 0.0, or
\* a balance in cents
ReadOutcomes == {<<>>, <<0>>, <<125>>}

\* the reads of a run of the GS job: the wallet holds no USDS of its own (its
\* funds are staked), the vault holds them
UsdsOutcomes == {<<>>, <<0>>}

VaultOutcomes == ReadOutcomes

NoReads == <<>>

\* get_current_balance() of update_gs_sheet.py over the wallet read and the
\* read of the one vault in STUSDS_VAULTS: reads that returned None are left
\* out of the sum; "total if total > 0 else None"
get_current_balance(usds, vault) ==
    LET total == (IF usds # <<>> THEN usds[1] ELSE 0)
                   + (IF vault # <<>> THEN vault[1] ELSE 0)
    IN  IF total > 0 THEN <<total>> ELSE <<>>

\* the exit status of the job's process: a balance of None is logged and the
\* module ends normally; an exception that escapes append_row ends it with 1
ExitStatus(out) == IF out = "Raised" THEN 1 ELSE 0

\* run_update_morpho_sheet(): subprocess.run without check=True; the last log
\* line does not depend on the child's exit status
run_update_morpho_sheet(status) == "completed successfully"

\* the Asset literal each job writes into column D
JobAsset(j) == IF j = "GS" THEN "USDS" ELSE "USDT"

\* _gmt7_date(): the calendar day of (utc now + 7 hours)
Gmt7Day(t) == (t + 7) \div 24

\* strftime("%Y-%m-%d") of that day
DateStr(day) == "2025-01-0" \o ToString(day + 1)

gmt7_date == DateStr(Gmt7Day(now))

\* str.strip() on the cell texts of the model
Strip(s) == IF s = " " THEN "" ELSE s

\* s[:10] on the cell texts of the model (none is longer than 10 characters)
Prefix10(s) == s

\* "date" in str(cell).lower()
HasDateWord(s) == s \in {"Date", "date", "DATE"}

\* sheet.col_values(1): column A down to its last non-empty cell
LastUsed(s) ==
    LET used == {r \in Rows : s[r][1] # ""}
    IN  IF used = {} THEN 0 ELSE CHOOSE r \in used : \A q \in used : q <= r

col_values(s) == [i \in 1..LastUsed(s) |-> s[i][1]]

\* a variant that skips the first row whatever it holds
get_existing_dates_skipfirst(col_a) ==
    { Prefix10(Strip(col_a[i])) :
        i \in { k \in 1..Len(col_a) :
                  /\ k # 1
                  /\ col_a[k] # "" /\ Strip(col_a[k]) # ""
                  /\ Len(Prefix10(Strip(col_a[k]))) >= 10 } }

\* get_existing_dates(), the body of its try block
get_existing_dates(col_a) ==
    { Prefix10(Strip(col_a[i])) :
        i \in { k \in 1..Len(col_a) :
                  /\ ~(k = 1 /\ col_a[k] # "" /\ HasDateWord(col_a[k]))
                  /\ col_a[k] # "" /\ Strip(col_a[k]) # ""
                  /\ Len(Prefix10(Strip(col_a[k]))) >= 10 } }

\* find_next_row(), the body of its try block
find_next_row(col_a) ==
    LET blank == {i \in 1..Len(col_a) : col_a[i] = "" \/ Strip(col_a[i]) = ""}
    IN  IF blank # {} THEN CHOOSE i \in blank : \A q \in blank : i <= q
        ELSE Len(col_a) + 1

\* a variant of the first update that also sends column E
UpdateAD_throughE(s, r, d, j) ==
    [s EXCEPT ![r] = [c \in Cols |->
        IF c = 1 THEN d
        ELSE IF c = 2 THEN j
        ELSE IF c = 3 THEN "Ethereum"
        ELSE IF c = 4 THEN JobAsset(j)
        ELSE IF c = 5 THEN ""
        ELSE s[r][c]]]

\* sheet.update(range_name="A{r}:D{r}", values=[[date_str, <job>, "Ethereum", <asset>]])
UpdateAD(s, r, d, j) ==
    [s EXCEPT ![r] = [c \in Cols |->
        IF c = 1 THEN d
        ELSE IF c = 2 THEN j
        ELSE IF c = 3 THEN "Ethereum"
        ELSE IF c = 4 THEN JobAsset(j)
        ELSE s[r][c]]]

\* sheet.update(range_name="F{r}", values=[[round(current_balance, 2)]]);
\* balances are whole cents, which round(x, 2) keeps
UpdateF(s, r, b) == [s EXCEPT ![r][6] = ToString(b)]

\* the text is a date key as get_existing_dates reads it
IsDateKey(s) == s # "" /\ ~HasDateWord(s) /\ Len(s) >= 10

(***************************************************************************)
(* Initial worksheets: empty, or a header row and the columns that other   *)
(* jobs fill (E, G-K) already filled below it.                             *)
(***************************************************************************)
EmptySheet == [r \in Rows |-> [c \in Cols |-> ""]]

HeaderSheet == [EmptySheet EXCEPT ![1] = [c \in Cols |-> IF c = 1 THEN "Date" ELSE "hdr"]]

OthersSheet ==
    [r \in Rows |-> [c \in Cols |->
        IF r = 1 THEN HeaderSheet[1][c]
        ELSE IF c \in RangeAD \cup RangeF THEN "" ELSE "other"]]

NoDate == "none"
NoPrev == [date |-> NoDate, outcome |-> "none", clean |-> FALSE, pred |-> "none"]

InitSheet ==
    /\ sheet \in {EmptySheet, OthersSheet}
    /\ job \in Jobs
    /\ now = 0
    /\ pc = "idle"
    /\ balance = 0
    /\ date_str = NoDate
    /\ row_num = 0
    /\ outcome = "none"
    /\ clean = TRUE
    /\ prev = NoPrev
    /\ reads = NoReads

(***************************************************************************)
(* The clock: time passes, twelve hours at a step.                          *)
(***************************************************************************)
Tick ==
    /\ Gmt7Day(now + 12) <= MaxDay
    /\ now' = now + 12
    /\ UNCHANGED <<sheet, job, pc, balance, date_str, row_num,
                   outcome, clean, prev, reads>>
    /\ UNCHANGED <<retryVars, scrapeVars, deriveVars, moreVars>>

(***************************************************************************)
(* __main__: balance = get_..._current_balance(); None ends the run.       *)
(***************************************************************************)
MainFetch ==
    /\ pc = "idle"
    /\ IF job = "GS"
       THEN \E u \in UsdsOutcomes, v \in VaultOutcomes :
              LET b == get_current_balance(u, v)
              IN  IF b # <<>>
                  THEN /\ balance' = b[1]
                       /\ pc' = "append"
                       /\ outcome' = "running"
                       /\ reads' = <<u, v>>
                  ELSE /\ balance' = 0
                       /\ pc' = "idle"
                       /\ outcome' = "Failed"
                       /\ reads' = NoReads
       ELSE \E ok \in BOOLEAN, b \in Balances :
              /\ reads' = NoReads
              /\ IF ok
                 THEN /\ balance' = b
                      /\ pc' = "append"
                      /\ outcome' = "running"
                 ELSE /\ balance' = 0
                      /\ pc' = "idle"
                      /\ outcome' = "Failed"
    /\ clean' = TRUE
    /\ UNCHANGED <<sheet, job, now, date_str, row_num, prev>>
    /\ UNCHANGED <<retryVars, scrapeVars, deriveVars, moreVars>>

\* the invocation ends: its locals are dead
Finish(out, d, cl) ==
    /\ pc' = "idle"
    /\ outcome' = out
    /\ clean' = TRUE
    /\ prev' = [date |-> d, outcome |-> out, clean |-> cl,
                 pred |-> IF prev.clean /\ prev.date = d THEN prev.outcome ELSE "none"]
    /\ balance' = 0
    /\ date_str' = NoDate
    /\ row_num' = 0
    /\ reads' = NoReads

(***************************************************************************)
(* append_row, lines 110-114: the date, the read of column A, the skip.    *)
(* A failed read makes get_existing_dates return set().                    *)
(***************************************************************************)
AppendCheck ==
    /\ pc = "append"
    /\ \E ok \in BOOLEAN :
         LET d        == gmt7_date
             existing == IF ok THEN get_existing_dates(col_values(sheet)) ELSE {}
         IN  IF d \in existing
             THEN Finish("Skipped", d, clean /\ ok)
             ELSE /\ pc' = "find"
                  /\ date_str' = d
                  /\ clean' = (clean /\ ok)
                  /\ UNCHANGED <<outcome, prev, balance, row_num, reads>>
    /\ UNCHANGED <<sheet, job, now>>
    /\ UNCHANGED <<retryVars, scrapeVars, deriveVars, moreVars>>

(***************************************************************************)
(* append_row, line 115: row_num = find_next_row(); a failed read gives 2. *)
(***************************************************************************)
AppendFind ==
    /\ pc = "find"
    /\ \E ok \in BOOLEAN :
         /\ row_num' = IF ok THEN find_next_row(col_values(sheet)) ELSE 2
         /\ clean' = (clean /\ ok)
    /\ pc' = "writeAD"
    /\ UNCHANGED <<sheet, job, now, balance, date_str, outcome, prev, reads>>
    /\ UNCHANGED <<retryVars, scrapeVars, deriveVars, moreVars>>

(***************************************************************************)
(* append_row, line 116: the update of A-D. A failed request (or a row     *)
(* beyond the grid) raises, and the exception ends the invocation.         *)
(***************************************************************************)
AppendWriteAD ==
    /\ pc = "writeAD"
    /\ \E ok \in BOOLEAN :
         IF ok /\ row_num \in Rows
         THEN /\ sheet' = UpdateAD(sheet, row_num, date_str, job)
              /\ pc' = "writeF"
              /\ UNCHANGED <<outcome, clean, prev, balance, date_str, row_num, reads>>
         ELSE /\ Finish("Raised", date_str, FALSE)
              /\ UNCHANGED sheet
    /\ UNCHANGED <<job, now>>
    /\ UNCHANGED <<retryVars, scrapeVars, deriveVars, moreVars>>

(***************************************************************************)
(* append_row, line 117: the update of F.                                  *)
(***************************************************************************)
AppendWriteF ==
    /\ pc = "writeF"
    /\ \E ok \in BOOLEAN :
         IF ok
         THEN /\ sheet' = UpdateF(sheet, row_num, balance)
              /\ Finish("Written", date_str, clean)
         ELSE /\ Finish("Raised", date_str, FALSE)
              /\ UNCHANGED sheet
    /\ UNCHANGED <<job, now>>
    /\ UNCHANGED <<retryVars, scrapeVars, deriveVars, moreVars>>

SheetNext ==
    \/ Tick
    \/ MainFetch
    \/ AppendCheck
    \/ AppendFind
    \/ AppendWriteAD
    \/ AppendWriteF

(***************************************************************************)
(* Part 2: the retry functions of cc_wallet_6165.py.                       *)
(***************************************************************************)
\* what the operation of a stage can return when it does not fail:
\*   positions (get_coinm_position_risk): the list of positions, JSON null,
\*     or the {"error": ...} dict it builds for a reply that is not JSON
\*   price (get_asset_price): the {"symbol", "price"} dict or JSON null
\*   cell (sheet.update_cell): nothing the wrapper looks at
ResultsOf(st) ==
    IF st = "positions" THEN {"list", "None", "errkey"}
    ELSE IF st = "price" THEN {"price", "None"}
    ELSE {"ok"}

\* how a failing call fails: it raises (timeout, connection error), or, for the
\* Binance functions, it returns the JSON body of an error reply (HTTP 429:
\* {"code": -1003, "msg": ...}) without raising
FailModes(st) == IF st = "cell" THEN {"raise"} ELSE {"raise", "reply"}

Scripts(st) ==
    { sc \in [k : 0..(MaxAttempts + 1), mode : FailModes(st), value : ResultsOf(st)] :
        sc.k = 0 => sc.mode = "raise" }

NoScript == [k |-> 0, mode |-> "raise", value |-> "ok"]

\* the operation's c-th invocation: "raise", or the value it returns
OpOutcome(sc, c) ==
    IF c <= sc.k THEN (IF sc.mode = "raise" THEN "raise" ELSE "body")
    ELSE sc.value

\* a variant that allows one attempt too many
HasNextAttempt_offbyone(a, n) == a <= n

\* "if attempt < max_attempts": sleep and go round again
HasNextAttempt(a, n) == a < n

\* a variant that lets the last exception escape
ExhaustedResult_reraise(kind) == "raised"

\* the return of the else branch: False (cell), None (api)
ExhaustedResult(kind) == IF kind = "cell" THEN "False" ELSE "None"

\* the return of the try block: True (cell), the operation's result (api)
SuccessResult(kind, v) == IF kind = "cell" THEN "True" ELSE v

RetryOff ==
    /\ rkind = "none"
    /\ max_attempts = 0
    /\ stage = "none"
    /\ script = NoScript
    /\ attempt = 0
    /\ calls = 0
    /\ sleeps = 0
    /\ rpc = "off"
    /\ rresult = "none"
    /\ succeeded = FALSE
    /\ gbd = "none"

InitRetry ==
    /\ rkind \in {"cell", "api"}
    /\ max_attempts \in 0..MaxAttempts
    /\ stage = (IF rkind = "cell" THEN "cell" ELSE "positions")
    /\ script = NoScript
    /\ attempt = 0
    /\ calls = 0
    /\ sleeps = 0
    /\ rpc = "start"
    /\ rresult = "none"
    /\ succeeded = FALSE
    /\ gbd = "none"

\* the retry function is called: "for attempt in range(1, max_attempts + 1)";
\* an empty range falls off the end of the function, which returns None
RetryEnter ==
    /\ rpc = "start"
    /\ \E sc \in Scripts(stage) : script' = sc
    /\ attempt' = 1
    /\ calls' = 0
    /\ sleeps' = 0
    /\ succeeded' = FALSE
    /\ IF max_attempts >= 1
       THEN rpc' = "loop" /\ rresult' = "none"
       ELSE rpc' = "returned" /\ rresult' = "None"
    /\ UNCHANGED <<rkind, max_attempts, stage, gbd>>
    /\ UNCHANGED <<sheetVars, scrapeVars, deriveVars, moreVars>>

\* a variant of the loop body that sleeps after every failed attempt
RetryAttempt_sleepalways ==
    /\ rpc = "loop"
    /\ calls' = calls + 1
    /\ LET out == OpOutcome(script, calls + 1)
       IN  IF out # "raise"
           THEN /\ rpc' = "returned"
                /\ rresult' = SuccessResult(rkind, out)
                /\ succeeded' = TRUE
                /\ UNCHANGED <<attempt, sleeps>>
           ELSE IF HasNextAttempt(attempt, max_attempts)
           THEN /\ sleeps' = sleeps + 1
                /\ attempt' = attempt + 1
                /\ UNCHANGED <<rpc, rresult, succeeded>>
           ELSE /\ rpc' = "returned"
                /\ rresult' = ExhaustedResult(rkind)
                /\ sleeps' = sleeps + 1
                /\ UNCHANGED <<attempt, succeeded>>
    /\ UNCHANGED <<rkind, max_attempts, stage, script, gbd>>
    /\ UNCHANGED <<sheetVars, scrapeVars, deriveVars, moreVars>>

\* one pass of the loop body: the try, and the except when the operation raises
RetryAttempt ==
    /\ rpc = "loop"
    /\ calls' = calls + 1
    /\ LET out == OpOutcome(script, calls + 1)
       IN  IF out # "raise"
           THEN /\ rpc' = "returned"
                /\ rresult' = SuccessResult(rkind, out)
                /\ succeeded' = TRUE
                /\ UNCHANGED <<attempt, sleeps>>
           ELSE IF HasNextAttempt(attempt, max_attempts)
           THEN /\ sleeps' = sleeps + 1
                /\ attempt' = attempt + 1
                /\ UNCHANGED <<rpc, rresult, succeeded>>
           ELSE /\ rpc' = "returned"
                /\ rresult' = ExhaustedResult(rkind)
                /\ UNCHANGED <<attempt, sleeps, succeeded>>
    /\ UNCHANGED <<rkind, max_attempts, stage, script, gbd>>
    /\ UNCHANGED <<sheetVars, scrapeVars, deriveVars, moreVars>>

\* get_binance_data, after each of its two retried calls has returned
GetBinanceData ==
    /\ rpc = "returned" /\ rkind = "api"
    /\ IF stage = "positions"
       THEN IF rresult = "None" \/ rresult = "errkey" \/ rresult # "list"
            THEN gbd' = "APIError" /\ rpc' = "off" /\ UNCHANGED stage
            ELSE gbd' = gbd /\ rpc' = "start" /\ stage' = "price"
       ELSE IF rresult = "None"
            THEN gbd' = "APIError" /\ rpc' = "off" /\ UNCHANGED stage
            ELSE gbd' = "returned" /\ rpc' = "off" /\ UNCHANGED stage
    /\ UNCHANGED <<rkind, max_attempts, script, attempt, calls, sleeps,
                   rresult, succeeded>>
    /\ UNCHANGED <<sheetVars, scrapeVars, deriveVars, moreVars>>

RetryNext ==
    \/ RetryEnter
    \/ RetryAttempt
    \/ GetBinanceData

(***************************************************************************)
(* Part 3: the price strategies of scrape_alp_data.                        *)
(*                                                                         *)
(* A document is laid out as the places of its text that look like a price *)
(* statement, in document order, and its script tags. A place has a form:  *)
(*   "full"    1 ALP = N USD   (patterns 1, 2 and 3 match it)              *)
(*   "noone"   ALP = N USD     (pattern 2 matches it)                      *)
(*   "dollar"  1ALP=$N         (pattern 3 matches it)                      *)
(* a numeral N (a run of digits and dots), and div: the place is the text  *)
(* of a div carrying the price classes. Numbers are in thousandths.        *)
(***************************************************************************)
Numerals == {"0", "0.005", "1.05", "1.2.3", "2000000"}

ScriptNumerals == {"", "0.005", "1.05"}

\* float(numeral): <<value>> in thousandths, or <<>> for ValueError
Float(n) ==
    IF n = "0" THEN <<0>>
    ELSE IF n = "0.005" THEN <<5>>
    ELSE IF n = "1.05" THEN <<1050>>
    ELSE IF n = "2000000" THEN <<2000000000>>
    ELSE IF n = "2.1" THEN <<2100>>
    ELSE IF n = "12.5" THEN <<12500>>
    ELSE IF n = "800" THEN <<800000>>
    ELSE IF n = "20000" THEN <<20000000>>
    ELSE IF n = "500" THEN <<500000>>
    ELSE <<>>

Places ==
    [form : {"noone", "dollar"}, num : Numerals, div : {FALSE}]
        \cup [form : {"full"}, num : Numerals, div : BOOLEAN]

\* a script tag: the numeral after its first "price" key and the numeral of its
\* first ALP ... USD stretch ("" when it has none)
ScriptTags == [key : ScriptNumerals, alp : ScriptNumerals]

SeqsUpTo(S, n) == UNION { [1..k -> S] : k \in 0..n }

\* the TVL and APY statements of a document: what follows "TVL" (a numeral and
\* its M/K suffix), the numeral between "APY" and "%" ("" when the document has
\* no such statement), and where they stand: "text" = in the running text of
\* the page, "div" = spread over nested elements of a div with the stats
\* classes, so that only that div's stripped text matches the patterns
TvlTexts == {"", "2.1M", "800"}

ApyTexts == {"", "0", "12.5", "1.2.3", "20000"}

StatsOf == [tvl : TvlTexts, apy : ApyTexts, place : {"text", "div"}]

PlainStats == [tvl |-> "2.1M", apy |-> "12.5", place |-> "text"]

Docs == [text : SeqsUpTo(Places, MaxText), scripts : SeqsUpTo(ScriptTags, MaxScripts),
         stats : {PlainStats}]

\* documents that vary in their TVL and APY statements, with or without a
\* price statement
AlpRunDocs ==
    [text : {<<>>, <<[form |-> "full", num |-> "1.05", div |-> FALSE]>>},
     scripts : {<<>>},
     stats : StatsOf]

\* the price_patterns list, by position
PatternMatches(p, form) ==
    IF p = 1 THEN form = "full"
    ELSE IF p = 2 THEN form \in {"full", "noone"}
    ELSE form \in {"full", "dollar"}

\* "if 0.01 < price_value < 1000000", in thousandths
InBound(v) == 10 < v /\ v < 1000000000

\* Python truth of result['price']: None and 0.0 are false
Found(price) == price # <<>> /\ price[1] # 0

NoPrice == [price |-> <<>>, by |-> "none"]

\* re.search(pattern, page_text): the first place the pattern matches, 0 if none
FirstMatch(text, p) ==
    LET hits == {i \in 1..Len(text) : PatternMatches(p, text[i].form)}
    IN  IF hits = {} THEN 0 ELSE CHOOSE i \in hits : \A q \in hits : i <= q

\* Method 1: "for pattern in price_patterns", from pattern p on
RECURSIVE Method1(_, _)
Method1(text, p) ==
    IF p > 3 THEN NoPrice
    ELSE LET m == FirstMatch(text, p)
         IN  IF m = 0 THEN Method1(text, p + 1)
             ELSE LET f == Float(text[m].num)
                  IN  IF f # <<>> /\ InBound(f[1])
                      THEN [price |-> f, by |-> "text"]
                      ELSE Method1(text, p + 1)

\* Method 2: "for price_div in price_divs", from place i on; the div's text is
\* searched with pattern 1 and the parsed number is taken as it is
RECURSIVE Method2(_, _)
Method2(text, i) ==
    IF i > Len(text) THEN NoPrice
    ELSE IF text[i].div /\ PatternMatches(1, text[i].form) /\ Float(text[i].num) # <<>>
         THEN [price |-> Float(text[i].num), by |-> "div"]
         ELSE Method2(text, i + 1)

\* Method 5: "for script in script_tags", from script i on, with the result so far
RECURSIVE Method5(_, _, _)
Method5(scripts, i, res) ==
    IF i > Len(scripts) THEN res
    ELSE LET k  == Float(scripts[i].key)
             r1 == IF scripts[i].key # "" /\ ~Found(res.price) /\ k # <<>> /\ InBound(k[1])
                   THEN [price |-> k, by |-> "script"]
                   ELSE res
             a  == Float(scripts[i].alp)
             r2 == IF scripts[i].alp # "" /\ ~Found(r1.price) /\ a # <<>> /\ InBound(a[1])
                   THEN [price |-> a, by |-> "script"]
                   ELSE r1
         IN  Method5(scripts, i + 1, r2)

\* scrape_alp_data, the price: Method 1, then Method 2 if no price yet, then
\* Method 5 (whose price assignments are guarded by "not result['price']")
ScrapePrice(d) ==
    LET r1 == Method1(d.text, 1)
        r2 == IF ~Found(r1.price) THEN Method2(d.text, 1) ELSE r1
    IN  Method5(d.scripts, 1, r2)

\* groups 1 and 2 of the TVL patterns
TvlNumeral(t) == IF t = "2.1M" THEN "2.1" ELSE t

TvlMultiplier(t) == IF t = "2.1M" THEN "M" ELSE ""

\* the try block of the TVL loop: float(group 1) times the multiplier
ParseTvl(t) ==
    LET f == Float(TvlNumeral(t))
    IN  IF f = <<>> THEN <<>>
        ELSE IF TvlMultiplier(t) = "M" THEN <<f[1] * 1000000>>
        ELSE IF TvlMultiplier(t) = "K" THEN <<f[1] * 1000>>
        ELSE f

NoData == [tvl |-> <<>>, apy |-> <<>>, alp_amount |-> <<>>]

\* Methods 3 and 4: TVL and APY from the page text, then, for a field that is
\* still not set, from the stats div; the parsed APY is taken as it is
ScrapeStats(d) ==
    LET st   == d.stats
        tvl3 == IF st.place = "text" /\ st.tvl # "" THEN ParseTvl(st.tvl) ELSE <<>>
        apy3 == IF st.place = "text" /\ st.apy # "" THEN Float(st.apy) ELSE <<>>
        m4   == (~Found(tvl3) \/ ~Found(apy3)) /\ st.place = "div"
        tvl4 == IF m4 /\ ~Found(tvl3) /\ st.tvl # "" /\ ParseTvl(st.tvl) # <<>>
                THEN ParseTvl(st.tvl) ELSE tvl3
        apy4 == IF m4 /\ ~Found(apy3) /\ st.apy # "" /\ Float(st.apy) # <<>>
                THEN Float(st.apy) ELSE apy3
    IN  [tvl |-> tvl4, apy |-> apy4]

\* "%.2f" of a number given in hundredths
Fixed2(h) == ToString(h \div 100) \o "." \o (IF h % 100 < 10 THEN "0" ELSE "")
                 \o ToString(h % 100)

\* three digits of a number below 1000
Pad3(f) == (IF f < 100 THEN "0" ELSE "") \o (IF f < 10 THEN "0" ELSE "") \o ToString(f)

\* update_google_sheet: tvl_display (values in thousandths)
TvlDisplay(t) ==
    IF ~Found(t) THEN ""
    ELSE IF t[1] >= 1000000000 THEN "$" \o Fixed2((t[1] + 5000000) \div 10000000) \o "M"
    ELSE IF t[1] >= 1000000 THEN "$" \o Fixed2((t[1] + 5000) \div 10000) \o "K"
    ELSE "$" \o Fixed2((t[1] + 5) \div 10)

\* update_google_sheet: apy_display, f"{apy}%" with the float's repr
ApyDisplay(a) ==
    IF ~Found(a) THEN ""
    ELSE LET f == a[1] % 1000
         IN  ToString(a[1] \div 1000) \o "."
                 \o (IF f = 0 THEN "0"
                     ELSE IF f % 100 = 0 THEN ToString(f \div 100)
                     ELSE IF f % 10 = 0 THEN (IF f < 100 THEN "0" ELSE "") \o ToString(f \div 10)
                     ELSE Pad3(f))
                 \o "%"

\* update_google_sheet: alp_amount_display, "%.6f"
AmountDisplay(m) ==
    IF ~Found(m) THEN ""
    ELSE ToString(m[1] \div 1000) \o "." \o Pad3(m[1] % 1000) \o "000"

\* update_google_sheet: row_data (the timestamp, date and time cells, which are
\* those of the period, are left out)
RowData(price, d) ==
    [price |-> price, tvl |-> TvlDisplay(d.tvl), apy |-> ApyDisplay(d.apy),
     amount |-> AmountDisplay(d.alp_amount)]

\* the environment: GOOGLE_APPLICATION_CREDENTIALS, GOOGLE_SHEET_ID,
\* ALP_CONTRACT_ADDRESS and WALLET_ADDRESS
Envs == [credentials : {"ok", "unset", "malformed"}, sheet_id : BOOLEAN,
         contract : BOOLEAN, wallet : BOOLEAN]

FullEnv == [credentials |-> "ok", sheet_id |-> TRUE, contract |-> TRUE, wallet |-> TRUE]

\* what get_token_balance returns: None, or the balance (in thousandths)
AlpBalances == {<<>>, <<2500>>}

\* the worksheet 'ALP Price': whether it has its header row, and its data rows
NoAlpSheet == [header |-> FALSE, rows |-> <<>>]

ScrapeOff ==
    /\ doc = [text |-> <<>>, scripts |-> <<>>, stats |-> PlainStats]
    /\ spc = "off"
    /\ result = NoPrice
    /\ alp_row = <<>>
    /\ env = FullEnv
    /\ data = NoData
    /\ alp_sheet = NoAlpSheet
    /\ invocation = 0
    /\ exit_code = -1

InitScrape ==
    /\ doc \in Docs
    /\ spc = "fetched"
    /\ result = NoPrice
    /\ alp_row = <<>>
    /\ env = FullEnv
    /\ data = NoData
    /\ alp_sheet = [header |-> TRUE, rows |-> <<>>]
    /\ invocation = 1
    /\ exit_code = -1

\* the scheduler has launched alp_price_scraper.py for the first time in the
\* period
InitAlpRun ==
    /\ doc \in AlpRunDocs
    /\ spc = "start"
    /\ result = NoPrice
    /\ alp_row = <<>>
    /\ env \in Envs
    /\ data = NoData
    /\ alp_sheet \in {NoAlpSheet, [header |-> TRUE, rows |-> <<>>]}
    /\ invocation = 1
    /\ exit_code = -1

\* an exception leaves run(): main() logs it and calls exit(1)
AlpFail ==
    /\ spc' = "failed"
    /\ exit_code' = 1

\* run(): self.load_environment(); ConfigError when the credentials or the
\* sheet id are not set or the credentials do not decode
LoadEnvironment ==
    /\ spc = "start"
    /\ IF env.credentials = "unset" \/ ~env.sheet_id \/ env.credentials = "malformed"
       THEN AlpFail
       ELSE spc' = "env" /\ UNCHANGED exit_code
    /\ UNCHANGED <<doc, result, alp_row, env, data, alp_sheet, invocation>>
    /\ UNCHANGED <<sheetVars, retryVars, deriveVars, moreVars>>

\* run(): self.setup_google_sheets(); a worksheet that is new or empty gets the
\* header row
SetupGoogleSheets ==
    /\ spc = "env"
    /\ \E ok \in BOOLEAN :
         IF ok
         THEN /\ alp_sheet' = [alp_sheet EXCEPT !.header = TRUE]
              /\ spc' = "ready"
              /\ UNCHANGED exit_code
         ELSE AlpFail /\ UNCHANGED alp_sheet
    /\ UNCHANGED <<doc, result, alp_row, env, data, invocation>>
    /\ UNCHANGED <<sheetVars, retryVars, deriveVars, moreVars>>

\* run(): html_content = self.get_page_html_with_playwright()
GetPageHtml ==
    /\ spc = "ready"
    /\ \E ok \in BOOLEAN :
         IF ok THEN spc' = "fetched" /\ UNCHANGED exit_code ELSE AlpFail
    /\ UNCHANGED <<doc, result, alp_row, env, data, alp_sheet, invocation>>
    /\ UNCHANGED <<sheetVars, retryVars, deriveVars, moreVars>>

\* run(): data = self.scrape_alp_data(html_content); no price raises ScrapingError
ScrapeAlpData ==
    /\ spc = "fetched"
    /\ LET r == ScrapePrice(doc)
           s == ScrapeStats(doc)
       IN  IF Found(r.price)
           THEN /\ result' = r
                /\ data' = [data EXCEPT !.tvl = s.tvl, !.apy = s.apy]
                /\ spc' = "scraped"
                /\ UNCHANGED exit_code
           ELSE /\ result' = NoPrice
                /\ data' = data
                /\ AlpFail
    /\ UNCHANGED <<doc, alp_row, env, alp_sheet, invocation>>
    /\ UNCHANGED <<sheetVars, retryVars, deriveVars, moreVars>>

\* run(), lines 579-600: the contract address from the environment or from the
\* page, then data['alp_amount'] = the token balance, or None when an address
\* is missing or the balance cannot be read
GetTokenBalance ==
    /\ spc = "scraped"
    /\ \E found \in BOOLEAN, bal \in AlpBalances :
         data' = [data EXCEPT !.alp_amount =
                    IF (env.contract \/ found) /\ env.wallet THEN bal ELSE <<>>]
    /\ spc' = "balanced"
    /\ UNCHANGED <<doc, result, alp_row, env, alp_sheet, invocation, exit_code>>
    /\ UNCHANGED <<sheetVars, retryVars, deriveVars, moreVars>>

\* run(): self.update_google_sheet(data): append_row, which can fail
UpdateGoogleSheet ==
    /\ spc = "balanced"
    /\ \E ok \in BOOLEAN :
         IF ok
         THEN /\ alp_row' = result.price
              /\ alp_sheet' = [alp_sheet EXCEPT
                                 !.rows = Append(@, RowData(result.price, data))]
              /\ spc' = "written"
              /\ exit_code' = 0
         ELSE /\ alp_row' = alp_row
              /\ alp_sheet' = alp_sheet
              /\ AlpFail
    /\ UNCHANGED <<doc, result, env, data, invocation>>
    /\ UNCHANGED <<sheetVars, retryVars, deriveVars, moreVars>>

\* scheduler.py: run_alp_price_scraper() is called at startup and by the daily
\* schedule entry; the second invocation of the period starts a new process
\* over the same page and the same environment
run_alp_price_scraper ==
    /\ spc \in {"written", "failed"}
    /\ invocation = 1
    /\ invocation' = 2
    /\ spc' = "start"
    /\ result' = NoPrice
    /\ data' = NoData
    /\ alp_row' = <<>>
    /\ exit_code' = -1
    /\ UNCHANGED <<doc, env, alp_sheet>>
    /\ UNCHANGED <<sheetVars, retryVars, deriveVars, moreVars>>

ScrapeNext ==
    \/ ScrapeAlpData
    \/ GetTokenBalance
    \/ UpdateGoogleSheet

AlpRunNext ==
    \/ LoadEnvironment
    \/ SetupGoogleSheets
    \/ GetPageHtml
    \/ ScrapeAlpData
    \/ GetTokenBalance
    \/ UpdateGoogleSheet
    \/ run_alp_price_scraper

(***************************************************************************)
(* Part 4: the derivations of update_llp_sheet.py (fetch_lighter_data) and *)
(* update_gs_sheet.py (get_current_balance). Amounts are in thousandths.   *)
(***************************************************************************)
\* a share record of the account for one pool: its raw shares_amount (<<>> when
\* the key is missing) and its principal_amount; an account without a record
\* for the pool leaves shares None and the principal 0.0
RawShares == {<<>>, <<0>>, <<7>>, <<100>>}

Principals == {0, 1000000}

ShareRecords == [shares : RawShares, principal : Principals]

\* the reply to the account query of a pool: the request fails, the reply has no
\* accounts, no share_prices, a share_price of null, a share_price that is no
\* number, share_prices whose entries are no objects, or a number
PoolReplies ==
    [kind : {"fail", "noaccounts", "noprices", "null", "text", "shape"}, sp : {0}]
        \cup [kind : {"number"}, sp : {-1000, 0, 1052, 2500}]

\* OTHER_POOL_CURRENT_VALUE: not set (<<>>) or a text
Overrides == {<<>>, <<"">>, <<" ">>, <<"abc">>, <<"500">>}

\* what the price endpoints give: no endpoint answers with a price above 0
\* (<<>>), or the first such price
PriceReplies == {<<>>, <<1500>>}

ShortEntries == {0, 1400}

\* the account query: LLP_WALLET_ADDRESS is not set, a request fails or the
\* reply has no account, or the account is returned
AccountReplies == {"nowallet", "fail", "ok"}

PlainLlpInput ==
    [account |-> "ok",
     lit |-> [shares |-> <<100>>, principal |-> 1000000],
     other |-> [shares |-> <<100>>, principal |-> 1000000],
     lit_reply |-> [kind |-> "number", sp |-> 2500],
     other_reply |-> [kind |-> "number", sp |-> 2500],
     override |-> <<>>,
     price |-> <<1500>>,
     short_entry |-> 0]

LlpInputs ==
    [account : {"ok"}, lit : ShareRecords, other : ShareRecords,
     lit_reply : PoolReplies, other_reply : PoolReplies,
     override : Overrides, price : PriceReplies, short_entry : ShortEntries]
        \cup { [PlainLlpInput EXCEPT !.account = a] : a \in AccountReplies }

\* "s.get('shares_amount') or s.get('sharesAmount')" for a record that has only
\* the first key: a value that is false in Python (a missing key, 0) gives None
FirstTruthy(raw) == IF raw # <<>> /\ raw[1] # 0 THEN raw ELSE <<>>

\* round(x, 2) of an amount in thousandths (the inputs of the model have no
\* amount that lies half way between two cents)
Round2(x) == ((x + 5) \div 10) * 10

\* _pool_value_from_share_price(pool_id, shares_amount)
pool_value_from_share_price(reply, shares_amount) ==
    IF reply.kind \in {"fail", "noaccounts"} THEN [status |-> "None", v |-> 0]
    ELSE IF reply.kind = "noprices" \/ shares_amount = <<>> THEN [status |-> "None", v |-> 0]
    ELSE IF reply.kind = "shape" THEN [status |-> "raise", v |-> 0]
    ELSE IF reply.kind \in {"null", "text"} THEN [status |-> "None", v |-> 0]
    ELSE IF reply.sp <= 0 THEN [status |-> "None", v |-> 0]
    ELSE [status |-> "value", v |-> Round2(shares_amount[1] * reply.sp)]

\* lines 188-202 for one pool: the value from the share price, else the principal
PoolValue(rec, reply) ==
    LET v == pool_value_from_share_price(reply, FirstTruthy(rec.shares))
    IN  IF v.status = "value" THEN v
        ELSE IF v.status = "raise" THEN v
        ELSE [status |-> "value", v |-> Round2(rec.principal)]

\* a variant that never applies the override
ApplyOverride_never(value, ov) == value

\* lines 204-209: OTHER_POOL_CURRENT_VALUE replaces the value of Pool 2 when it
\* is set, not blank, and float() accepts it
ApplyOverride(value, ov) ==
    IF ov # <<>> /\ Strip(ov[1]) # "" /\ Float(Strip(ov[1])) # <<>>
    THEN Float(Strip(ov[1]))[1]
    ELSE value

\* lines 211-260: the price of the first endpoint that answers with one above
\* 0, else short_entry when that is above 0, else the initial 0.0
LighterPrice(reply, short_entry) ==
    IF reply # <<>> THEN reply[1]
    ELSE IF short_entry > 0 THEN short_entry
    ELSE 0

NoLlpOut == [status |-> "none", pool_values |-> <<0, 0>>, price |-> 0]

\* fetch_lighter_data()
fetch_lighter_data(in) ==
    IF in.account # "ok" THEN [NoLlpOut EXCEPT !.status = "None"]
    ELSE LET v1 == PoolValue(in.lit, in.lit_reply)
             v2 == PoolValue(in.other, in.other_reply)
         IN  IF v1.status = "raise" \/ v2.status = "raise"
             THEN [NoLlpOut EXCEPT !.status = "raise"]
             ELSE [status |-> "data",
                   pool_values |-> <<Round2(v1.v), Round2(ApplyOverride(v2.v, in.override))>>,
                   price |-> LighterPrice(in.price, in.short_entry)]

NoGsOut == [status |-> "none", value |-> <<>>]

DeriveOff ==
    /\ llp_in = PlainLlpInput
    /\ llp_out = NoLlpOut
    /\ gs_in = <<<<>>, <<>>>>
    /\ gs_out = NoGsOut
    /\ dpc = "off"

InitDerive ==
    /\ llp_out = NoLlpOut
    /\ gs_out = NoGsOut
    /\ \/ /\ dpc = "llp"
          /\ llp_in \in LlpInputs
          /\ gs_in = <<<<>>, <<>>>>
       \/ /\ dpc = "gs"
          /\ llp_in = PlainLlpInput
          /\ gs_in \in ReadOutcomes \X ReadOutcomes

\* update_llp_sheet.py, __main__: api_data = fetch_lighter_data()
FetchLighterData ==
    /\ dpc = "llp"
    /\ llp_out' = fetch_lighter_data(llp_in)
    /\ dpc' = "done"
    /\ UNCHANGED <<llp_in, gs_in, gs_out>>
    /\ UNCHANGED <<sheetVars, retryVars, scrapeVars, moreVars>>

\* update_gs_sheet.py, __main__: balance = get_current_balance()
GetCurrentBalance ==
    /\ dpc = "gs"
    /\ gs_out' = [status |-> "returned", value |-> get_current_balance(gs_in[1], gs_in[2])]
    /\ dpc' = "done"
    /\ UNCHANGED <<llp_in, llp_out, gs_in>>
    /\ UNCHANGED <<sheetVars, retryVars, scrapeVars, moreVars>>

DeriveNext ==
    \/ FetchLighterData
    \/ GetCurrentBalance

(***************************************************************************)
(* Part 5 (specification SpecMirror): deposit_withdraw_sheet_updater.py,   *)
(* the module's statements from the clearing of the sheet to the write.    *)
(* staking_wallet_updater.py has the same order: batch_clear, then the     *)
(* fetch from Firebase, then the write.                                    *)
(***************************************************************************)
\* the transactions Firebase can hold, named by their place in applyTime order
TxIds == 1..MaxTx

\* date, time = transaction['applyTime'].split(' '): transactions 1 and 2
\* share their applyTime, and the time of day is not in the order of the ids
TxDate(t) == (t + 1) \div 2
TxTime(t) == 2 - (TxDate(t) % 2)

\* the header of worksheet 'Deposit & Withdrawal'
DwHeader == "Wallet"

\* the rows sorted newest first, as the line before the sort had it
SortKeyBefore_reverse(t, u) ==
    \/ TxDate(t) > TxDate(u)
    \/ TxDate(t) = TxDate(u) /\ TxTime(t) > TxTime(u)
    \/ TxDate(t) = TxDate(u) /\ TxTime(t) = TxTime(u) /\ t <= u

\* the key of rows.sort: datetime.strptime(date + " " + time), oldest first;
\* rows with the same key stay in the order of the dictionary
SortKeyBefore(t, u) ==
    \/ TxDate(t) < TxDate(u)
    \/ TxDate(t) = TxDate(u) /\ TxTime(t) < TxTime(u)
    \/ TxDate(t) = TxDate(u) /\ TxTime(t) = TxTime(u) /\ t <= u

\* rows.sort(key=applyTime), oldest first, of the rows built from a set of
\* transactions
RECURSIVE SortRows(_)
SortRows(txs) ==
    IF txs = {} THEN <<>>
    ELSE LET first == CHOOSE t \in txs : \A u \in txs : SortKeyBefore(t, u)
         IN  <<first>> \o SortRows(txs \ {first})

MirrorOff ==
    /\ ref_data = {}
    /\ dw_sheet = <<>>
    /\ dw_found = <<>>
    /\ transactions = {}
    /\ dw_fetch = "none"
    /\ dw_pc = "off"
    /\ dw_runs = 0
    /\ dw_row1 = ""
    /\ dw_update = "none"

\* the sheet holds what an earlier run wrote
InitMirror ==
    /\ ref_data \in SUBSET TxIds
    /\ \E old \in SUBSET ref_data : dw_sheet = SortRows(old)
    /\ dw_found = dw_sheet
    /\ transactions = {}
    /\ dw_fetch = "none"
    /\ dw_pc = "start"
    /\ dw_runs = 1
    /\ dw_row1 = DwHeader
    /\ dw_update = "none"

\* lines 54-60: sheet.batch_clear(["A2:M"]); an error ends the process
DwClear ==
    /\ dw_pc = "start"
    /\ \E ok \in BOOLEAN :
         IF ok THEN dw_sheet' = <<>> /\ dw_pc' = "cleared"
         ELSE dw_sheet' = dw_sheet /\ dw_pc' = "exited"
    /\ UNCHANGED <<ref_data, dw_found, transactions, dw_fetch, dw_runs, dw_row1, dw_update>>
    /\ UNCHANGED <<baseVars, notMirror>>

\* lines 62-70: transactions = ref.get() or {}; an error gives {}
DwFetch ==
    /\ dw_pc = "cleared"
    /\ \E ok \in BOOLEAN :
         /\ transactions' = IF ok THEN ref_data ELSE {}
         /\ dw_fetch' = IF ok THEN "ok" ELSE "failed"
    /\ dw_pc' = "fetched"
    /\ UNCHANGED <<ref_data, dw_sheet, dw_found, dw_runs, dw_row1, dw_update>>
    /\ UNCHANGED <<baseVars, notMirror>>

\* lines 72-126: the rows are built and sorted; they are written when column A
\* below the header is empty; an error of the read or of the update is printed
DwWrite ==
    /\ dw_pc = "fetched"
    /\ \E ok \in BOOLEAN :
         /\ dw_sheet' = IF ok /\ dw_sheet = <<>> THEN SortRows(transactions) ELSE dw_sheet
         /\ dw_update' = IF ~ok THEN "failed"
                         ELSE IF dw_sheet = <<>> THEN "ok" ELSE "not empty"
    /\ dw_pc' = "done"
    /\ UNCHANGED <<ref_data, dw_found, transactions, dw_fetch, dw_runs, dw_row1>>
    /\ UNCHANGED <<baseVars, notMirror>>

\* scheduler.py, run_deposit_withdraw_sheet_updater: the next daily run; Firebase
\* may have gained transactions in between
DwNextRun ==
    /\ dw_pc \in {"done", "exited"}
    /\ dw_runs < MaxRuns
    /\ dw_runs' = dw_runs + 1
    /\ \E more \in SUBSET TxIds : ref_data' = ref_data \cup more
    /\ dw_found' = dw_sheet
    /\ transactions' = {}
    /\ dw_fetch' = "none"
    /\ dw_update' = "none"
    /\ dw_pc' = "start"
    /\ UNCHANGED <<dw_sheet, dw_row1>>
    /\ UNCHANGED <<baseVars, notMirror>>

MirrorNext ==
    \/ DwClear
    \/ DwFetch
    \/ DwWrite
    \/ DwNextRun

(***************************************************************************)
(* Part 6 (specification SpecHist): db_deposit_withdraw_history.py.        *)
(* main reads the existing records once, then process_transactions goes    *)
(* through the deposits and withdrawals of every wallet; one step per      *)
(* transaction.                                                            *)
(***************************************************************************)
Wallets == {"wallet1", "wallet2"}

TxTypes == {"deposit", "withdrawal"}

\* a transaction of a wallet's history, as process_transactions receives it
HistTx == [wallet : Wallets, id : TxIds, type : TxTypes]

\* main goes through the wallets in order, and for each wallet through its
\* deposits and then its withdrawals
WalletOrder(w) == IF w = "wallet1" THEN 1 ELSE 2

TypeOrder(t) == IF t = "deposit" THEN 1 ELSE 2

InMainOrder(h) ==
    \A i \in 1..(Len(h) - 1) :
        \/ WalletOrder(h[i].wallet) < WalletOrder(h[i + 1].wallet)
        \/ /\ h[i].wallet = h[i + 1].wallet
           /\ TypeOrder(h[i].type) <= TypeOrder(h[i + 1].type)

Histories == {h \in SeqsUpTo(HistTx, MaxHist) : InMainOrder(h)}

\* transaction_exists(transaction_id, transaction_type, existing_transactions)
transaction_exists(tx, existing) ==
    \E k \in 1..Len(existing) : existing[k].id = tx.id /\ existing[k].type = tx.type

HistOff ==
    /\ fb = <<>>
    /\ existing_transactions = <<>>
    /\ history = <<>>
    /\ h_i = 0
    /\ h_last = "none"
    /\ h_pc = "off"
    /\ h_runs = 0

InitHist ==
    /\ fb = <<>>
    /\ existing_transactions = <<>>
    /\ history \in Histories
    /\ h_i = 0
    /\ h_last = "none"
    /\ h_pc = "start"
    /\ h_runs = 1

\* main, line 129: existing_transactions = fetch_existing_transactions(); an
\* error of ref.get() gives {}
FetchExistingTransactions ==
    /\ h_pc = "start"
    /\ \E ok \in BOOLEAN : existing_transactions' = IF ok THEN fb ELSE <<>>
    /\ h_i' = 1
    /\ h_pc' = "process"
    /\ UNCHANGED <<fb, history, h_last, h_runs>>
    /\ UNCHANGED <<baseVars, notHist>>

\* process_transactions, one turn of its loop: skip a transaction that
\* transaction_exists finds, else push it (an error of ref.push is logged)
ProcessTransaction ==
    /\ h_pc = "process"
    /\ h_i <= Len(history)
    /\ IF transaction_exists(history[h_i], existing_transactions)
       THEN h_last' = "skipped" /\ fb' = fb
       ELSE \E ok \in BOOLEAN :
              IF ok THEN h_last' = "pushed" /\ fb' = Append(fb, history[h_i])
              ELSE h_last' = "push failed" /\ fb' = fb
    /\ h_i' = h_i + 1
    /\ UNCHANGED <<existing_transactions, history, h_pc, h_runs>>
    /\ UNCHANGED <<baseVars, notHist>>

\* main, line 150: every wallet is done
HistDone ==
    /\ h_pc = "process"
    /\ h_i > Len(history)
    /\ h_pc' = "done"
    /\ h_last' = "none"
    /\ UNCHANGED <<fb, existing_transactions, history, h_i, h_runs>>
    /\ UNCHANGED <<baseVars, notHist>>

\* scheduler.py, run_db_deposit_withdraw_history: the next daily run; Binance
\* returns the same histories again
HistNextRun ==
    /\ h_pc = "done"
    /\ h_runs < MaxRuns
    /\ h_runs' = h_runs + 1
    /\ existing_transactions' = <<>>
    /\ h_i' = 0
    /\ h_pc' = "start"
    /\ UNCHANGED <<fb, history, h_last>>
    /\ UNCHANGED <<baseVars, notHist>>

HistNext ==
    \/ FetchExistingTransactions
    \/ ProcessTransaction
    \/ HistDone
    \/ HistNextRun

(***************************************************************************)
(* Part 7 (specification SpecEdgex): edgex_google_sheet.py, __main__:      *)
(* fetch, setup_sheet_headers, fill_google_sheet; one step per record of   *)
(* the list.                                                               *)
(***************************************************************************)
\* the snapshotTime values of the API, as numbers of days
SnapshotTimes == 1..MaxTs

\* str(record.get("snapshotTime", ""))
TsText(ts) == ToString(ts)

\* convert_to_gmt7(timestamp_ms)[0]
TsDate(ts) == DateStr(ts - 1)

ApiLists == SeqsUpTo(SnapshotTimes, MaxList) \ {<<>>}

EdgexHeaderA == "Date (GMT+7)"
EdgexHeaderD == "Timestamp"

EmptyEdgexRow == [a |-> "", d |-> "", e |-> ""]

EmptyEdgexSheet == [r \in Rows |-> EmptyEdgexRow]

\* a sheet with its header row and column E filled by hand
OthersEdgexSheet ==
    [r \in Rows |-> IF r = 1 THEN [a |-> EdgexHeaderA, d |-> EdgexHeaderD, e |-> "hdr"]
                    ELSE [a |-> "", d |-> "", e |-> "other"]]

\* sheet.get_all_values(): the rows down to the last one that holds a value
EdgexAllValues(s) ==
    LET used == {r \in Rows : s[r] # EmptyEdgexRow}
        last == IF used = {} THEN 0 ELSE CHOOSE r \in used : \A q \in used : q <= r
    IN  [i \in 1..last |-> s[i]]

\* sheet.col_values(1): column A down to its last non-empty cell
EdgexColA(s) ==
    LET used == {r \in Rows : s[r].a # ""}
        last == IF used = {} THEN 0 ELSE CHOOSE r \in used : \A q \in used : q <= r
    IN  [i \in 1..last |-> s[i].a]

\* get_existing_timestamps(), the body of its try block
get_existing_timestamps(all_values) ==
    IF Len(all_values) <= 1 THEN {}
    ELSE {Strip(all_values[i].d) :
            i \in {k \in 2..Len(all_values) :
                     all_values[k].d # "" /\ Strip(all_values[k].d) # ""}}

\* find_next_empty_row_in_column_a(), the body of its try block
find_next_empty_row_in_column_a(column_a) ==
    LET blank == {i \in 2..Len(column_a) : column_a[i] = "" \/ Strip(column_a[i]) = ""}
    IN  IF blank # {} THEN CHOOSE i \in blank : \A q \in blank : i <= q
        ELSE Len(column_a) + 1

\* sheet.update(range_name="A{r}:D{r}", values=[[date_str, time_str, amount, snapshot_time]])
EdgexUpdateAD(s, r, a, d) == [s EXCEPT ![r] = [a |-> a, d |-> d, e |-> s[r].e]]

NoTrace == [wrote |-> {}, faults |-> FALSE, aborted |-> FALSE, prev |-> <<>>]

EdgexOff ==
    /\ e_sheet = EmptyEdgexSheet
    /\ api_data = <<>>
    /\ existing_timestamps = {}
    /\ e_i = 0
    /\ e_pc = "off"
    /\ e_row = 0
    /\ e_runs = 0
    /\ e_trace = NoTrace

InitEdgex ==
    /\ e_sheet \in {EmptyEdgexSheet, OthersEdgexSheet}
    /\ api_data = <<>>
    /\ existing_timestamps = {}
    /\ e_i = 0
    /\ e_pc = "start"
    /\ e_row = 0
    /\ e_runs = 1
    /\ e_trace = NoTrace

\* __main__: api_data = fetch_edgex_vault_trends(); None or [] ends the run
FetchEdgexVaultTrends ==
    /\ e_pc = "start"
    /\ \E l \in ApiLists \cup {<<>>} :
         /\ api_data' = l
         /\ e_pc' = IF l = <<>> THEN "done" ELSE "headers"
    /\ e_row' = 0
    /\ UNCHANGED <<e_sheet, existing_timestamps, e_i, e_runs, e_trace>>
    /\ UNCHANGED <<baseVars, notEdgex>>

\* setup_sheet_headers(): the headers are written into A1:D1 when the sheet is
\* empty or row 1 holds something else; an error is logged
SetupSheetHeaders ==
    /\ e_pc = "headers"
    /\ \E ok \in BOOLEAN :
         LET all_values == EdgexAllValues(e_sheet)
         IN  /\ e_sheet' =
               IF ok /\ (Len(all_values) = 0
                          \/ all_values[1].a # EdgexHeaderA \/ all_values[1].d # EdgexHeaderD)
               THEN EdgexUpdateAD(e_sheet, 1, EdgexHeaderA, EdgexHeaderD)
               ELSE e_sheet
         /\ e_trace' = [e_trace EXCEPT !.faults = @ \/ ~ok]
    /\ e_pc' = "fill"
    /\ UNCHANGED <<api_data, existing_timestamps, e_i, e_row, e_runs>>
    /\ UNCHANGED <<baseVars, notEdgex>>

\* fill_google_sheet, line 238: existing_timestamps = get_existing_timestamps();
\* a failed read gives set()
GetExistingTimestamps ==
    /\ e_pc = "fill"
    /\ \E ok \in BOOLEAN :
         /\ existing_timestamps' =
              IF ok THEN get_existing_timestamps(EdgexAllValues(e_sheet)) ELSE {}
         /\ e_trace' = [e_trace EXCEPT !.faults = @ \/ ~ok]
    /\ e_i' = 1
    /\ e_pc' = "loop"
    /\ UNCHANGED <<e_sheet, api_data, e_row, e_runs>>
    /\ UNCHANGED <<baseVars, notEdgex>>

\* fill_google_sheet, lines 244-265: one record of the list. A failed read of
\* column A gives row 2; a failed update (or a row beyond the grid) raises, and
\* the except clause of fill_google_sheet ends the loop.
FillRecord ==
    /\ e_pc = "loop"
    /\ e_i <= Len(api_data)
    /\ LET snapshot_time == TsText(api_data[e_i])
       IN  IF snapshot_time \in existing_timestamps
           THEN /\ e_i' = e_i + 1
                /\ e_row' = 0
                /\ UNCHANGED <<e_sheet, e_pc, e_trace>>
           ELSE \E okfind, okupdate \in BOOLEAN :
                  LET empty_row == IF okfind
                                   THEN find_next_empty_row_in_column_a(EdgexColA(e_sheet))
                                   ELSE 2
                  IN  IF okupdate /\ empty_row \in Rows
                      THEN /\ e_sheet' = EdgexUpdateAD(e_sheet, empty_row,
                                                       TsDate(api_data[e_i]), snapshot_time)
                           /\ e_row' = empty_row
                           /\ e_i' = e_i + 1
                           /\ e_trace' = [e_trace EXCEPT !.wrote = @ \cup {empty_row},
                                                          !.faults = @ \/ ~okfind]
                           /\ UNCHANGED e_pc
                      ELSE /\ e_pc' = "done"
                           /\ e_row' = 0
                           /\ e_trace' = [e_trace EXCEPT !.faults = TRUE, !.aborted = TRUE]
                           /\ UNCHANGED <<e_sheet, e_i>>
    /\ UNCHANGED <<api_data, existing_timestamps, e_runs>>
    /\ UNCHANGED <<baseVars, notEdgex>>

\* fill_google_sheet: the list is done
FillDone ==
    /\ e_pc = "loop"
    /\ e_i > Len(api_data)
    /\ e_pc' = "done"
    /\ e_row' = 0
    /\ UNCHANGED <<e_sheet, api_data, existing_timestamps, e_i, e_runs, e_trace>>
    /\ UNCHANGED <<baseVars, notEdgex>>

\* scheduler.py, run_edgex_google_sheet: at startup and daily
EdgexNextRun ==
    /\ e_pc = "done"
    /\ e_runs < MaxRuns
    /\ e_runs' = e_runs + 1
    /\ e_pc' = "start"
    /\ api_data' = <<>>
    /\ existing_timestamps' = {}
    /\ e_i' = 0
    /\ e_row' = 0
    /\ e_trace' = [NoTrace EXCEPT !.prev =
                     <<[list |-> api_data, sheet |-> e_sheet, wrote |-> e_trace.wrote,
                        aborted |-> e_trace.aborted]>>]
    /\ UNCHANGED e_sheet
    /\ UNCHANGED <<baseVars, notEdgex>>

EdgexNext ==
    \/ FetchEdgexVaultTrends
    \/ SetupSheetHeaders
    \/ GetExistingTimestamps
    \/ FillRecord
    \/ FillDone
    \/ EdgexNextRun

(***************************************************************************)
(* Part 8 (specification SpecLlp): update_llp_sheet.py, __main__ and       *)
(* fill_google_sheet, on the worksheet the module opened or created.       *)
(***************************************************************************)
LlpDays == 0..MaxDay

\* strftime("%Y-%m-%d %H:%M:%S") of the run's time (the job runs at 05:00)
LlpNowStr(day) == DateStr(day) \o " 05:00:00"

\* s[:10] on the cell texts of worksheet 'LLP'
LlpPrefix10(s) ==
    IF \E d \in LlpDays : s = LlpNowStr(d)
    THEN DateStr(CHOOSE d \in LlpDays : s = LlpNowStr(d))
    ELSE s

EmptyLlpRow == [a |-> "", rest |-> ""]

\* the worksheet add_worksheet created: no header row
NewLlpSheet == [r \in Rows |-> EmptyLlpRow]

\* a worksheet with a header row
HeaderLlpSheet == [NewLlpSheet EXCEPT ![1] = [a |-> "Date", rest |-> "hdr"]]

\* sheet.get_all_values(): the rows down to the last one that holds a value
LlpAllValues(s) ==
    LET used == {r \in Rows : s[r] # EmptyLlpRow}
        last == IF used = {} THEN 0 ELSE CHOOSE r \in used : \A q \in used : q <= r
    IN  [i \in 1..last |-> s[i]]

\* sheet.col_values(1)
LlpColA(s) ==
    LET used == {r \in Rows : s[r].a # ""}
        last == IF used = {} THEN 0 ELSE CHOOSE r \in used : \A q \in used : q <= r
    IN  [i \in 1..last |-> s[i].a]

\* get_existing_dates() of update_llp_sheet.py, the body of its try block
llp_get_existing_dates(all_values) ==
    IF Len(all_values) <= 1 THEN {}
    ELSE {LlpPrefix10(Strip(all_values[i].a)) :
            i \in {k \in 2..Len(all_values) :
                     /\ all_values[k].a # "" /\ Strip(all_values[k].a) # ""
                     /\ Len(LlpPrefix10(Strip(all_values[k].a))) >= 10}}

LlpOff ==
    /\ l_sheet = NewLlpSheet
    /\ l_day = 0
    /\ api_llp = <<>>
    /\ l_pc = "off"
    /\ l_row = 0
    /\ l_clean = TRUE
    /\ l_days = <<>>
    /\ l_runs = 0

InitLlp ==
    /\ l_sheet \in {NewLlpSheet, HeaderLlpSheet}
    /\ l_day = 0
    /\ api_llp = <<>>
    /\ l_pc = "start"
    /\ l_row = 0
    /\ l_clean = TRUE
    /\ l_days = <<0>>
    /\ l_runs = 1

\* __main__: api_data = fetch_lighter_data(); None ends the run
LlpFetch ==
    /\ l_pc = "start"
    /\ \E ok \in BOOLEAN :
         IF ok THEN api_llp' = <<LlpNowStr(l_day)>> /\ l_pc' = "fill"
         ELSE api_llp' = <<>> /\ l_pc' = "done"
    /\ UNCHANGED <<l_sheet, l_day, l_row, l_clean, l_days, l_runs>>
    /\ UNCHANGED <<baseVars, notLlp>>

\* fill_google_sheet, lines 315-319: the date, the read of the sheet, the skip;
\* a failed read makes get_existing_dates return set()
LlpCheck ==
    /\ l_pc = "fill"
    /\ \E ok \in BOOLEAN :
         LET date_part == LlpPrefix10(api_llp[1])
             existing  == IF ok THEN llp_get_existing_dates(LlpAllValues(l_sheet)) ELSE {}
         IN  /\ l_pc' = IF date_part # "" /\ date_part \in existing THEN "done" ELSE "find"
             /\ l_clean' = (l_clean /\ ok)
    /\ UNCHANGED <<l_sheet, l_day, api_llp, l_row, l_days, l_runs>>
    /\ UNCHANGED <<baseVars, notLlp>>

\* fill_google_sheet, line 320: empty_row = find_next_empty_row_in_column_a();
\* a failed read gives 2
LlpFind ==
    /\ l_pc = "find"
    /\ \E ok \in BOOLEAN :
         /\ l_row' = IF ok THEN find_next_empty_row_in_column_a(LlpColA(l_sheet)) ELSE 2
         /\ l_clean' = (l_clean /\ ok)
    /\ l_pc' = "write"
    /\ UNCHANGED <<l_sheet, l_day, api_llp, l_days, l_runs>>
    /\ UNCHANGED <<baseVars, notLlp>>

\* fill_google_sheet, lines 321-338: the update of A-L; an error (a failed
\* request, a row beyond the grid) is logged
LlpWrite ==
    /\ l_pc = "write"
    /\ \E ok \in BOOLEAN :
         IF ok /\ l_row \in Rows
         THEN /\ l_sheet' = [l_sheet EXCEPT ![l_row] = [a |-> api_llp[1], rest |-> "Lighter"]]
              /\ UNCHANGED l_clean
         ELSE /\ UNCHANGED l_sheet
              /\ l_clean' = FALSE
    /\ l_pc' = "done"
    /\ UNCHANGED <<l_day, api_llp, l_row, l_days, l_runs>>
    /\ UNCHANGED <<baseVars, notLlp>>

\* a day passes between two runs
LlpTick ==
    /\ l_pc = "done"
    /\ l_day < MaxDay
    /\ l_day' = l_day + 1
    /\ UNCHANGED <<l_sheet, api_llp, l_pc, l_row, l_clean, l_days, l_runs>>
    /\ UNCHANGED <<baseVars, notLlp>>

\* scheduler.py, run_update_llp_sheet (or a run by hand): the next run
LlpNextRun ==
    /\ l_pc = "done"
    /\ l_runs < MaxRuns
    /\ l_runs' = l_runs + 1
    /\ l_days' = Append(l_days, l_day)
    /\ api_llp' = <<>>
    /\ l_row' = 0
    /\ l_pc' = "start"
    /\ UNCHANGED <<l_sheet, l_day, l_clean>>
    /\ UNCHANGED <<baseVars, notLlp>>

LlpNext ==
    \/ LlpFetch
    \/ LlpCheck
    \/ LlpFind
    \/ LlpWrite
    \/ LlpTick
    \/ LlpNextRun

(***************************************************************************)
(* Part 9 (specification SpecConc): two invocations of one date-keyed job  *)
(* (update_morpho_sheet.py, update_sky_money_sheet.py, update_gs_sheet.py) *)
(* at the same time on the same worksheet and the same GMT+7 date. Each    *)
(* worksheet request is one step and every request succeeds.               *)
(***************************************************************************)
Invocations == {1, 2}

\* the balances the two fetches can return (in cents)
ConcBalances == {125, 130}

IdleProc == [pc |-> "idle", balance |-> 0, date_str |-> NoDate, row_num |-> 0,
             outcome |-> "none"]

ConcOff ==
    /\ c_sheet = EmptySheet
    /\ c_job = "none"
    /\ procs = [i \in Invocations |-> [IdleProc EXCEPT !.pc = "off"]]

InitConc ==
    /\ c_sheet \in {EmptySheet, OthersSheet}
    /\ c_job \in Jobs
    /\ procs = [i \in Invocations |-> IdleProc]

\* __main__: the fetch of the balance
ConcFetch(i) ==
    /\ procs[i].pc = "idle"
    /\ \E b \in ConcBalances :
         procs' = [procs EXCEPT ![i].pc = "append", ![i].balance = b]
    /\ UNCHANGED <<c_sheet, c_job>>
    /\ UNCHANGED <<baseVars, notConc>>

\* append_row, lines 110-114
ConcCheck(i) ==
    /\ procs[i].pc = "append"
    /\ LET d == DateStr(0)
       IN  IF d \in get_existing_dates(col_values(c_sheet))
           THEN procs' = [procs EXCEPT ![i].pc = "done", ![i].outcome = "Skipped"]
           ELSE procs' = [procs EXCEPT ![i].pc = "find", ![i].date_str = d]
    /\ UNCHANGED <<c_sheet, c_job>>
    /\ UNCHANGED <<baseVars, notConc>>

\* append_row, line 115
ConcFind(i) ==
    /\ procs[i].pc = "find"
    /\ procs' = [procs EXCEPT ![i].pc = "writeAD",
                              ![i].row_num = find_next_row(col_values(c_sheet))]
    /\ UNCHANGED <<c_sheet, c_job>>
    /\ UNCHANGED <<baseVars, notConc>>

\* append_row, line 116 (a row beyond the grid raises)
ConcWriteAD(i) ==
    /\ procs[i].pc = "writeAD"
    /\ IF procs[i].row_num \in Rows
       THEN /\ c_sheet' = UpdateAD(c_sheet, procs[i].row_num, procs[i].date_str, c_job)
            /\ procs' = [procs EXCEPT ![i].pc = "writeF"]
       ELSE /\ c_sheet' = c_sheet
            /\ procs' = [procs EXCEPT ![i].pc = "done", ![i].outcome = "Raised"]
    /\ UNCHANGED c_job
    /\ UNCHANGED <<baseVars, notConc>>

\* append_row, line 117
ConcWriteF(i) ==
    /\ procs[i].pc = "writeF"
    /\ c_sheet' = UpdateF(c_sheet, procs[i].row_num, procs[i].balance)
    /\ procs' = [procs EXCEPT ![i].pc = "done", ![i].outcome = "Written"]
    /\ UNCHANGED c_job
    /\ UNCHANGED <<baseVars, notConc>>

ConcNext ==
    \/ \E i \in Invocations : ConcFetch(i)
    \/ \E i \in Invocations : ConcCheck(i)
    \/ \E i \in Invocations : ConcFind(i)
    \/ \E i \in Invocations : ConcWriteAD(i)
    \/ \E i \in Invocations : ConcWriteF(i)

(***************************************************************************)
(* Part 10 (specification SpecSched): scheduler.py with the job of         *)
(* update_morpho_sheet.py. Jobs run one after the other in the loop of     *)
(* main (subprocess.run blocks), so an invocation is one step. Time is in  *)
(* hours; a pending job runs at most MaxDelay hours late.                  *)
(***************************************************************************)
\* the hours (UTC) at which the scheduler can be started
StartHours == {0, 10, 17}

\* the local-time offsets of the machine: UTC, or GMT+7
Offsets == {0, 7}

\* get_local_time_for_gmt_plus_7(h, 0): the hour of (h:00 GMT+7) - 7 hours
get_local_time_for_gmt_plus_7(h) == (h + 24 - 7) % 24

\* a variant that runs the job every twelve hours
NextRunAfter_halfday(t, tz) ==
    LET at    == get_local_time_for_gmt_plus_7(0) % 12
        local == t + tz
        cand  == (local \div 12) * 12 + at
    IN  IF cand > local THEN cand - tz ELSE cand + 12 - tz

\* schedule.every().day.at(local_time_00_00_gmt7): the next time after t at which
\* the local clock shows that hour
NextRunAfter(t, tz) ==
    LET at    == get_local_time_for_gmt_plus_7(0)
        local == t + tz
        cand  == (local \div 24) * 24 + at
    IN  IF cand > local THEN cand - tz ELSE cand + 24 - tz

\* append_row(b) on worksheet s at date d, with the outcome of each request
append_row(s, d, b, okRead, okFind, okAD, okF) ==
    LET existing == IF okRead THEN get_existing_dates(col_values(s)) ELSE {}
        row      == IF okFind THEN find_next_row(col_values(s)) ELSE 2
    IN  IF d \in existing THEN s
        ELSE IF ~(okAD /\ row \in Rows) THEN s
        ELSE IF ~okF THEN UpdateAD(s, row, d, "Morpho")
        ELSE UpdateF(UpdateAD(s, row, d, "Morpho"), row, b)

\* the requests append_row made all succeeded
append_row_ok(s, d, okRead, okFind, okAD, okF) ==
    /\ okRead
    /\ \/ d \in get_existing_dates(col_values(s))
       \/ okFind /\ okAD /\ okF /\ find_next_row(col_values(s)) \in Rows

\* the rows of worksheet s whose column A holds the date of GMT+7 day d
RecordsOfDay(s, d) == {r \in Rows : s[r][1] = DateStr(d)}

NoPeriod == [day |-> -1, begun |-> FALSE, invoked |-> 0, ok |-> FALSE, rows |-> 0]

SchedOff ==
    /\ s_pc = "off"
    /\ s_now = 0
    /\ s_tz = 0
    /\ s_next_run = 0
    /\ s_sheet = EmptySheet
    /\ s_period = NoPeriod
    /\ s_ended = NoPeriod

InitSched ==
    /\ s_pc = "main"
    /\ s_now \in StartHours
    /\ s_tz \in Offsets
    /\ s_next_run = 0
    /\ s_sheet \in {EmptySheet, OthersSheet}
    /\ s_period = [NoPeriod EXCEPT !.day = Gmt7Day(s_now)]
    /\ s_ended = NoPeriod

\* main, up to the loop: the job is registered; the runs at startup do not
\* include run_update_morpho_sheet
SchedMain ==
    /\ s_pc = "main"
    /\ s_pc' = "loop"
    /\ s_next_run' = NextRunAfter(s_now, s_tz)
    /\ UNCHANGED <<s_now, s_tz, s_sheet, s_period, s_ended>>
    /\ UNCHANGED <<baseVars, notSched>>

\* the loop of main: time.sleep(60), and the other jobs, until an hour has passed
SchedTick ==
    /\ s_pc = "loop"
    /\ Gmt7Day(s_now + 1) <= MaxDay + 1
    /\ s_now + 1 <= s_next_run + MaxDelay
    /\ s_now' = s_now + 1
    /\ IF Gmt7Day(s_now + 1) # Gmt7Day(s_now)
       THEN /\ s_ended' = [s_period EXCEPT
                              !.rows = Cardinality(RecordsOfDay(s_sheet, s_period.day))]
            /\ s_period' = [NoPeriod EXCEPT !.day = Gmt7Day(s_now + 1), !.begun = TRUE]
       ELSE UNCHANGED <<s_period, s_ended>>
    /\ UNCHANGED <<s_pc, s_tz, s_next_run, s_sheet>>
    /\ UNCHANGED <<baseVars, notSched>>

\* schedule.run_pending() with the job due: run_update_morpho_sheet runs
\* update_morpho_sheet.py to its end, and the job is scheduled again
RunPending ==
    /\ s_pc = "loop"
    /\ s_next_run <= s_now
    /\ \E okFetch, okRead, okFind, okAD, okF \in BOOLEAN, b \in Balances :
         LET d == DateStr(Gmt7Day(s_now))
         IN  IF okFetch
             THEN /\ s_sheet' = append_row(s_sheet, d, b, okRead, okFind, okAD, okF)
                  /\ s_period' = [s_period EXCEPT
                        !.invoked = @ + 1,
                        !.ok = append_row_ok(s_sheet, d, okRead, okFind, okAD, okF)]
             ELSE /\ s_sheet' = s_sheet
                  /\ s_period' = [s_period EXCEPT !.invoked = @ + 1, !.ok = FALSE]
    /\ s_next_run' = NextRunAfter(s_now, s_tz)
    /\ UNCHANGED <<s_pc, s_now, s_tz, s_ended>>
    /\ UNCHANGED <<baseVars, notSched>>

SchedNext ==
    \/ SchedMain
    \/ SchedTick
    \/ RunPending

(***************************************************************************)
(* Part 11 (specification SpecApy): the APY deriver (annualized simple     *)
(* return) of the specification, section "Derivation". Timestamps are      *)
(* epoch milliseconds on whole days, prices are in cents, and the result   *)
(* is kept as a reduced fraction. The sort is stable and the closest       *)
(* sample is the first of the closest in sorted order; a division by zero  *)
(* raises.                                                                 *)
(***************************************************************************)
\* milliseconds in a day
DayMs == 86400000

SampleDays == 0..2

SamplePrices == {0, 100, 110}

Samples == [time : {d * DayMs : d \in SampleDays}, price : SamplePrices]

Lookbacks == {1, 2}

Unavailable == [kind |-> "unavailable", num |-> 0, den |-> 1]

ApyRaised == [kind |-> "raised", num |-> 0, den |-> 1]

Abs(x) == IF x < 0 THEN -x ELSE x

RECURSIVE Gcd(_, _)
Gcd(a, b) == IF b = 0 THEN a ELSE Gcd(b, a % b)

\* the number num/den, den > 0
ApyNumber(num, den) ==
    LET g == Gcd(Abs(num), den)
    IN  [kind |-> "number", num |-> num \div g, den |-> den \div g]

\* x put behind the samples of sorted that are not later than it
InsertByTime(sorted, x) ==
    LET k == Cardinality({i \in 1..Len(sorted) : sorted[i].time <= x.time})
    IN  SubSeq(sorted, 1, k) \o <<x>> \o SubSeq(sorted, k + 1, Len(sorted))

\* "sort ascending by timestamp"
RECURSIVE SortByTime(_)
SortByTime(series) ==
    IF series = <<>> THEN <<>>
    ELSE InsertByTime(SortByTime(SubSeq(series, 1, Len(series) - 1)),
                      series[Len(series)])

\* a variant that takes the last sample of the sorted list
ClosestTo_newest(sorted, target_time) == sorted[Len(sorted)]

\* "the sample whose timestamp is closest (minimal absolute difference) to
\* target_time"
ClosestTo(sorted, target_time) ==
    LET dist(i) == Abs(sorted[i].time - target_time)
        best    == {i \in 1..Len(sorted) : \A j \in 1..Len(sorted) : dist(i) <= dist(j)}
    IN  sorted[CHOOSE i \in best : \A j \in best : i <= j]

\* elapsed_days of the series, for a series that has a sample
ElapsedDays(series, P) ==
    LET sorted      == SortByTime(series)
        newest      == sorted[Len(sorted)]
        reference   == ClosestTo(sorted, newest.time - P * DayMs)
    IN  (newest.time - reference.time) \div DayMs

\* the deriver
Apy(series, P) ==
    IF Len(series) < 2 THEN Unavailable
    ELSE LET sorted       == SortByTime(series)
             newest       == sorted[Len(sorted)]
             target_time  == newest.time - P * DayMs
             reference    == ClosestTo(sorted, target_time)
             elapsed_days == (newest.time - reference.time) \div DayMs
         IN  IF elapsed_days <= 0 THEN Unavailable
             ELSE IF reference.price = 0 THEN ApyRaised
             ELSE ApyNumber((newest.price - reference.price) * 365 * 100,
                            reference.price * elapsed_days)

\* the available history span of a series that has a sample, in days
AvailableDays(series) ==
    LET sorted == SortByTime(series)
    IN  (sorted[Len(sorted)].time - sorted[1].time) \div DayMs

\* "P' = min(P, available_days)"
FallbackLookback(P, available_days) == IF P < available_days THEN P ELSE available_days

\* the price of the reference sample of a series that has a sample
ReferencePrice(series, P) ==
    LET sorted == SortByTime(series)
    IN  ClosestTo(sorted, sorted[Len(sorted)].time - P * DayMs).price

NoRetry == [P |-> 0, out |-> Unavailable]

\* the orders of a list of n samples
Orders(n) == {f \in [1..n -> 1..n] : \A i, j \in 1..n : f[i] = f[j] => i = j}

ApyOff ==
    /\ a_series = <<>>
    /\ a_P = 0
    /\ a_shuffled = <<>>
    /\ a_out = Unavailable
    /\ a_out2 = Unavailable
    /\ a_pc = "off"
    /\ a_retry = NoRetry

InitApy ==
    /\ a_series \in SeqsUpTo(Samples, MaxSamples)
    /\ a_P \in Lookbacks
    /\ a_shuffled = <<>>
    /\ a_out = Unavailable
    /\ a_out2 = Unavailable
    /\ a_pc = "in"
    /\ a_retry = NoRetry

\* the caller shuffles the price history
ApyShuffle ==
    /\ a_pc = "in"
    /\ \E f \in Orders(Len(a_series)) :
         a_shuffled' = [i \in 1..Len(a_series) |-> a_series[f[i]]]
    /\ a_pc' = "shuffled"
    /\ UNCHANGED <<a_series, a_P, a_out, a_out2, a_retry>>
    /\ UNCHANGED <<baseVars, notApy>>

\* the deriver is called with each of the two lists
ApyDerive ==
    /\ a_pc = "shuffled"
    /\ a_out' = Apy(a_series, a_P)
    /\ a_out2' = Apy(a_shuffled, a_P)
    /\ a_pc' = "done"
    /\ UNCHANGED <<a_series, a_P, a_shuffled, a_retry>>
    /\ UNCHANGED <<baseVars, notApy>>

\* the caller: the requested lookback exceeds the available history span, and
\* the deriver is called again with P' = min(P, available_days)
ApyFallback ==
    /\ a_pc = "done"
    /\ Len(a_series) >= 1
    /\ a_P > AvailableDays(a_series)
    /\ LET P2 == FallbackLookback(a_P, AvailableDays(a_series))
       IN  a_retry' = [P |-> P2, out |-> Apy(a_series, P2)]
    /\ a_pc' = "retried"
    /\ UNCHANGED <<a_series, a_P, a_shuffled, a_out, a_out2>>
    /\ UNCHANGED <<baseVars, notApy>>

ApyNext ==
    \/ ApyShuffle
    \/ ApyDerive
    \/ ApyFallback

(***************************************************************************)
(* Part 12 (specification SpecCc): cc_wallet_6165.py, process_sheet_data   *)
(* with the positions and the BTC price that get_binance_data returned.    *)
(* One pass of the row loop is one step; update_cell_with_retry returns    *)
(* True when a call of sheet.update_cell returned and False when all its   *)
(* attempts raised.                                                        *)
(***************************************************************************)
CcRows == 1..MaxCcRow

\* self.wallet_name
WalletName == "Wallet 1"

\* btc_price of get_binance_data
BtcPrice == "60000.00"

CcRow(w, sym, st, en) ==
    [wallet |-> w, symbol |-> sym, start |-> st, end |-> en,
     k |-> "old", l |-> "old", m |-> "old", rest |-> "x"]

CcHeader == [wallet |-> "Wallet", symbol |-> "Contract", start |-> "Start", end |-> "End",
             k |-> "Future Price", l |-> "BTC Amount", m |-> "BTC Price", rest |-> "hdr"]

\* the rows a sheet can hold below its headers
RowKinds ==
    { CcRow("Wallet 1", "BTCUSD_PERP", "2025-01-01", ""),
      CcRow("Wallet 1", "BTCUSD_PERP", "2025-01-01", " "),
      CcRow("Wallet 1", "BTCUSD_PERP", "2025-01-01", "2025-02-01"),
      CcRow("Wallet 1", "ETHUSD_PERP", "2025-01-01", ""),
      CcRow("Wallet 1", "BTCUSD_PERP", "", ""),
      CcRow("Wallet 1", " ", "2025-01-01", ""),
      CcRow("Wallet 2", "BTCUSD_PERP", "2025-01-01", "") }

\* the replies of get_coinm_position_risk
PositionLists ==
    { <<>>,
      <<[symbol |-> "BTCUSD_PERP", markPrice |-> "61000.5", notionalValue |-> "-2.5"]>>,
      <<[symbol |-> "BTCUSD_PERP", markPrice |-> "n/a", notionalValue |-> "-2.5"]>>,
      <<[symbol |-> "BTCUSD_PERP", markPrice |-> "n/a", notionalValue |-> "-2.5"],
        [symbol |-> "ETHUSD_PERP", markPrice |-> "3000.0", notionalValue |-> "-1.5"]>>,
      <<[symbol |-> "BTCUSD_PERP", markPrice |-> "61000.5", notionalValue |-> "-2.5"],
        [symbol |-> "BTCUSD_PERP", markPrice |-> "3000.0", notionalValue |-> "-1.5"]>> }

\* float(text): <<the float's text>>, or <<>> for ValueError
CcFloat(t) ==
    IF t = "61000.5" THEN <<"61000.5">>
    ELSE IF t = "3000.0" THEN <<"3000.0">>
    ELSE IF t = "-2.5" THEN <<"-2.5">>
    ELSE IF t = "-1.5" THEN <<"-1.5">>
    ELSE <<>>

\* -1 * notional_value
Negated(f) ==
    IF f = "-2.5" THEN "2.5"
    ELSE IF f = "-1.5" THEN "1.5"
    ELSE "-" \o f

\* a variant that does not look at the end date
should_process_row_noend(wallet, contract_symbol, start_date, end_date) ==
    /\ wallet = WalletName
    /\ ~(contract_symbol = "" \/ Strip(contract_symbol) = "")
    /\ ~(start_date = "" \/ Strip(start_date) = "")

should_process_row(wallet, contract_symbol, start_date, end_date) ==
    /\ wallet = WalletName
    /\ ~(contract_symbol = "" \/ Strip(contract_symbol) = "")
    /\ ~(start_date = "" \/ Strip(start_date) = "")
    /\ ~(end_date # "" /\ Strip(end_date) # "")

\* find_matching_position: <<the first position of that symbol>>, or <<>> for None
find_matching_position(contract_symbol, coinm_positions) ==
    LET hits == {i \in 1..Len(coinm_positions) : coinm_positions[i].symbol = contract_symbol}
    IN  IF hits = {} THEN <<>>
        ELSE <<coinm_positions[CHOOSE i \in hits : \A q \in hits : i <= q]>>

\* process_position_data: <<[future_price, btc_amount, btc_price]>>, or <<>> when
\* a float() raises
process_position_data(matching_position, btc_price) ==
    IF CcFloat(matching_position.markPrice) = <<>>
           \/ CcFloat(matching_position.notionalValue) = <<>>
    THEN <<>>
    ELSE <<[future_price |-> CcFloat(matching_position.markPrice)[1],
            btc_amount |-> Negated(CcFloat(matching_position.notionalValue)[1]),
            btc_price |-> btc_price]>>

\* the three update_cell_with_retry calls of update_sheet_row on the worksheet
UpdateKLM(s, r, d, okK, okL, okM) ==
    [s EXCEPT ![r] = [@ EXCEPT !.k = IF okK THEN d.future_price ELSE @,
                               !.l = IF okL THEN d.btc_amount ELSE @,
                               !.m = IF okM THEN d.btc_price ELSE @]]

\* a variant that takes one successful write for success
update_sheet_row_any(success_k, success_l, success_m) ==
    success_k \/ success_l \/ success_m

\* what update_sheet_row returns: all([success_k, success_l, success_m])
update_sheet_row(success_k, success_l, success_m) ==
    success_k /\ success_l /\ success_m

\* a variant of the row loop that ends at a row that failed
RowLoopNext_stop(i, failed) == IF failed THEN MaxCcRow + 1 ELSE i + 1

\* the row loop after a pass: "continue", or the end of the loop body
RowLoopNext(i, failed) == i + 1

NoPass == [outcome |-> "none", k |-> FALSE, l |-> FALSE, m |-> FALSE]

CcOff ==
    /\ cc_sheet = [r \in CcRows |-> CcHeader]
    /\ cc_all_values = <<>>
    /\ cc_positions = <<>>
    /\ cc_i = 0
    /\ cc_pc = "off"
    /\ processed_count = 0
    /\ skipped_count = 0
    /\ cc_log = [r \in CcRows |-> NoPass]

\* the worksheet: a header in row 1, a second header or a row like a data row
\* in row 2, data rows below
CcSheets ==
    { s \in [CcRows -> RowKinds \cup {CcHeader}] :
        /\ s[1] = CcHeader
        /\ s[2] \in {CcHeader, CcRow("Wallet 1", "BTCUSD_PERP", "2025-01-01", "")}
        /\ \A r \in CcRows : r >= 3 => s[r] \in RowKinds }

InitCc ==
    /\ cc_sheet \in CcSheets
    /\ cc_all_values = <<>>
    /\ cc_positions \in PositionLists
    /\ cc_i = 0
    /\ cc_pc = "start"
    /\ processed_count = 0
    /\ skipped_count = 0
    /\ cc_log = [r \in CcRows |-> NoPass]

\* process_sheet_data: all_values = self.sheet.get_all_values(); an error is
\* raised again and ends the run
CcGetAllValues ==
    /\ cc_pc = "start"
    /\ \E ok \in BOOLEAN :
         IF ok
         THEN /\ cc_all_values' = [r \in CcRows |-> cc_sheet[r]]
              /\ cc_i' = 3
              /\ cc_pc' = "loop"
         ELSE /\ cc_pc' = "failed"
              /\ UNCHANGED <<cc_all_values, cc_i>>
    /\ processed_count' = 0
    /\ skipped_count' = 0
    /\ cc_log' = [r \in CcRows |-> NoPass]
    /\ UNCHANGED <<cc_sheet, cc_positions>>
    /\ UNCHANGED <<baseVars, notCc>>

\* one pass of "for row_index, row in enumerate(all_values[2:], start=3)"
CcProcessRow ==
    /\ cc_pc = "loop"
    /\ cc_i <= Len(cc_all_values)
    /\ LET row == cc_all_values[cc_i]
           mp  == find_matching_position(row.symbol, cc_positions)
       IN  IF ~should_process_row(row.wallet, row.symbol, row.start, row.end)
           THEN /\ skipped_count' = skipped_count + 1
                /\ cc_log' = [cc_log EXCEPT ![cc_i].outcome = "skipped"]
                /\ cc_i' = RowLoopNext(cc_i, FALSE)
                /\ UNCHANGED <<cc_sheet, processed_count>>
           ELSE IF mp = <<>>
           THEN /\ skipped_count' = skipped_count + 1
                /\ cc_log' = [cc_log EXCEPT ![cc_i].outcome = "no position"]
                /\ cc_i' = RowLoopNext(cc_i, FALSE)
                /\ UNCHANGED <<cc_sheet, processed_count>>
           ELSE IF process_position_data(mp[1], BtcPrice) = <<>>
           THEN /\ cc_log' = [cc_log EXCEPT ![cc_i].outcome = "error"]
                /\ cc_i' = RowLoopNext(cc_i, TRUE)
                /\ UNCHANGED <<cc_sheet, processed_count, skipped_count>>
           ELSE \E okK, okL, okM \in BOOLEAN :
                  LET d == process_position_data(mp[1], BtcPrice)[1]
                  IN  /\ cc_sheet' = UpdateKLM(cc_sheet, cc_i, d, okK, okL, okM)
                      /\ IF update_sheet_row(okK, okL, okM)
                         THEN /\ processed_count' = processed_count + 1
                              /\ cc_log' = [cc_log EXCEPT ![cc_i] =
                                    [outcome |-> "processed", k |-> okK, l |-> okL, m |-> okM]]
                              /\ cc_i' = RowLoopNext(cc_i, FALSE)
                         ELSE /\ processed_count' = processed_count
                              /\ cc_log' = [cc_log EXCEPT ![cc_i] =
                                    [outcome |-> "failed", k |-> okK, l |-> okL, m |-> okM]]
                              /\ cc_i' = RowLoopNext(cc_i, TRUE)
                      /\ UNCHANGED skipped_count
    /\ UNCHANGED <<cc_all_values, cc_positions, cc_pc>>
    /\ UNCHANGED <<baseVars, notCc>>

\* the loop is over: "Processing complete"
CcComplete ==
    /\ cc_pc = "loop"
    /\ cc_i > Len(cc_all_values)
    /\ cc_pc' = "done"
    /\ UNCHANGED <<cc_sheet, cc_all_values, cc_positions, cc_i, processed_count,
                   skipped_count, cc_log>>
    /\ UNCHANGED <<baseVars, notCc>>

CcNext ==
    \/ CcGetAllValues
    \/ CcProcessRow
    \/ CcComplete

(***************************************************************************)
(* Part 13 (specification SpecJobs): scheduler.py launching its jobs, and  *)
(* main.py launching the Cash&Carry scripts; cc_wallet_6165.py runs as in  *)
(* Part 12. A subprocess is started in one step and exits in another.      *)
(***************************************************************************)
\* main(), "Run immediately on startup"
StartupJobs == <<"main.py", "alp_price_scraper.py", "edgex_google_sheet.py">>

\* the jobs schedule.run_pending() can find due together
PendingLists ==
    { <<"main.py">>,
      <<"alp_price_scraper.py", "update_sky_money_sheet.py", "update_morpho_sheet.py",
        "update_gs_sheet.py">>,
      <<"edgex_google_sheet.py", "main.py", "update_worldlib_sheet.py">> }

\* main.py: scripts
MainScripts == <<"cc_wallet_6165.py", "cc_wallet_1945.py", "cc_wallet_289.py",
                 "cc_wallet_16.py", "cc_wallet_789.py">>

\* a variant that starts a subprocess without waiting for it
Waiting_nowait(parent, procs_live) == FALSE

\* subprocess.run: the parent waits until the subprocess it started has exited
Waiting(parent, procs_live) ==
    \E i \in 1..Len(procs_live) : procs_live[i].parent = parent

\* the list without its entries of that parent and script
RECURSIVE Exited(_, _, _)
Exited(procs_live, parent, name) ==
    IF procs_live = <<>> THEN <<>>
    ELSE IF procs_live[1].parent = parent /\ procs_live[1].script = name
    THEN Tail(procs_live)
    ELSE <<procs_live[1]>> \o Exited(Tail(procs_live), parent, name)

JobsOff ==
    /\ j_pc = "off"
    /\ j_queue = <<>>
    /\ j_k = 0
    /\ live = <<>>
    /\ m_i = 0
    /\ attempted = <<>>
    /\ m_ran = <<>>
    /\ j_fail = 0
    /\ m_fail = 0

\* the worksheets and replies cc_wallet_6165.py meets when main.py runs it:
\* this wallet's rows are rows 3 and 4, another wallet's rows follow
JobSheets ==
    { s \in CcSheets :
        /\ s[2] = CcHeader
        /\ \A r \in CcRows : r >= 3 =>
              s[r] \in { CcRow("Wallet 1", "BTCUSD_PERP", "2025-01-01", ""),
                         CcRow("Wallet 1", "BTCUSD_PERP", "2025-01-01", "2025-02-01"),
                         CcRow("Wallet 2", "BTCUSD_PERP", "2025-01-01", "") }
        /\ \A r \in CcRows : r >= 5 =>
              s[r] = CcRow("Wallet 2", "BTCUSD_PERP", "2025-01-01", "") }

JobPositionLists == { q \in PositionLists : Len(q) <= 1 }

InitCcIdle ==
    /\ cc_sheet \in JobSheets
    /\ cc_all_values = <<>>
    /\ cc_positions \in JobPositionLists
    /\ cc_i = 0
    /\ cc_pc = "idle"
    /\ processed_count = 0
    /\ skipped_count = 0
    /\ cc_log = [r \in CcRows |-> NoPass]

InitJobs ==
    /\ j_pc = "startup"
    /\ j_queue = StartupJobs
    /\ j_k = 1
    /\ live = <<>>
    /\ m_i = 0
    /\ attempted = <<>>
    /\ m_ran = <<>>
    /\ j_fail = 0
    /\ m_fail = 0

\* a run function of the scheduler calls subprocess.run: the subprocess starts,
\* or subprocess.run raises and the run function logs the error and returns
JobLaunch ==
    /\ j_pc \in {"startup", "pending"}
    /\ j_k <= Len(j_queue)
    /\ ~Waiting("scheduler", live)
    /\ attempted' = Append(attempted, j_queue[j_k])
    /\ \E started \in BOOLEAN :
         IF started
         THEN /\ live' = Append(live, [parent |-> "scheduler", script |-> j_queue[j_k]])
              /\ m_i' = IF j_queue[j_k] = "main.py" THEN 1 ELSE m_i
              /\ UNCHANGED <<j_k, j_fail, m_ran, m_fail>>
         ELSE /\ j_k' = j_k + 1
              /\ j_fail' = IF j_fail = 0 THEN j_k ELSE j_fail
              /\ UNCHANGED <<live, m_i, m_ran, m_fail>>
    /\ UNCHANGED <<j_pc, j_queue>>
    /\ UNCHANGED ccVars
    /\ UNCHANGED <<baseVars, notJobs>>

\* a job other than main.py exits, with status 0 or 1; subprocess.run returns
\* and the run function logs and returns
JobExit ==
    /\ \E i \in 1..Len(live) :
         /\ live[i].parent = "scheduler"
         /\ live[i].script # "main.py"
         /\ ~Waiting(live[i].script, live)
         /\ live' = Exited(live, "scheduler", live[i].script)
         /\ \E status \in {0, 1} :
              j_fail' = IF status = 1 /\ j_fail = 0 THEN j_k ELSE j_fail
    /\ j_k' = j_k + 1
    /\ UNCHANGED <<j_pc, j_queue, m_i, attempted, m_ran, m_fail>>
    /\ UNCHANGED ccVars
    /\ UNCHANGED <<baseVars, notJobs>>

\* main.py: run_script(script) calls subprocess.run; cc_wallet_6165.py then
\* runs up to process_sheet_data, or fails before it
MainLaunch ==
    /\ m_i \in 1..Len(MainScripts)
    /\ ~Waiting("main.py", live)
    /\ m_ran' = Append(m_ran, MainScripts[m_i])
    /\ \E started \in BOOLEAN :
         IF started
         THEN /\ live' = Append(live, [parent |-> "main.py", script |-> MainScripts[m_i]])
              /\ UNCHANGED <<m_i, m_fail>>
              /\ IF MainScripts[m_i] = "cc_wallet_6165.py"
                 THEN \E early \in BOOLEAN :
                        cc_pc' = IF early THEN "failed" ELSE "start"
                 ELSE UNCHANGED cc_pc
         ELSE /\ m_i' = m_i + 1
              /\ m_fail' = IF m_fail = 0 THEN m_i ELSE m_fail
              /\ UNCHANGED <<live, cc_pc>>
    /\ UNCHANGED <<j_pc, j_queue, j_k, attempted, j_fail>>
    /\ UNCHANGED <<cc_sheet, cc_all_values, cc_positions, cc_i, processed_count,
                   skipped_count, cc_log>>
    /\ UNCHANGED <<baseVars, notJobs>>

\* a script of main.py exits; run_script returns, then time.sleep(60)
MainChildExit ==
    /\ \E i \in 1..Len(live) :
         /\ live[i].parent = "main.py"
         /\ live' = Exited(live, "main.py", live[i].script)
         /\ IF live[i].script = "cc_wallet_6165.py"
            THEN /\ cc_pc \in {"done", "failed"}
                 /\ cc_pc' = "idle"
                 /\ m_fail' = IF cc_pc = "failed" /\ m_fail = 0 THEN m_i ELSE m_fail
            ELSE /\ UNCHANGED cc_pc
                 /\ \E status \in {0, 1} :
                      m_fail' = IF status = 1 /\ m_fail = 0 THEN m_i ELSE m_fail
    /\ m_i' = m_i + 1
    /\ UNCHANGED <<j_pc, j_queue, j_k, attempted, m_ran, j_fail>>
    /\ UNCHANGED <<cc_sheet, cc_all_values, cc_positions, cc_i, processed_count,
                   skipped_count, cc_log>>
    /\ UNCHANGED <<baseVars, notJobs>>

\* main.py has run all its scripts and exits, and with it what it and its
\* scripts held in memory; run_worker_server returns
MainExit ==
    /\ m_i > Len(MainScripts)
    /\ ~Waiting("main.py", live)
    /\ live' = Exited(live, "scheduler", "main.py")
    /\ m_i' = 0
    /\ m_ran' = <<>>
    /\ m_fail' = 0
    /\ j_k' = j_k + 1
    /\ cc_all_values' = <<>>
    /\ cc_i' = 0
    /\ processed_count' = 0
    /\ skipped_count' = 0
    /\ cc_log' = [r \in CcRows |-> NoPass]
    /\ UNCHANGED <<j_pc, j_queue, attempted, j_fail>>
    /\ UNCHANGED <<cc_sheet, cc_positions, cc_pc>>
    /\ UNCHANGED <<baseVars, notJobs>>

\* the startup runs, or the pending jobs of this pass, have all returned: the
\* loop sleeps and calls schedule.run_pending() again
JobsReturned ==
    /\ j_pc \in {"startup", "pending"}
    /\ j_k > Len(j_queue)
    /\ ~Waiting("scheduler", live)
    /\ j_pc' = "loop"
    /\ UNCHANGED <<j_queue, j_k, live, m_i, attempted, m_ran, j_fail, m_fail>>
    /\ UNCHANGED ccVars
    /\ UNCHANGED <<baseVars, notJobs>>

\* schedule.run_pending() finds jobs due
RunPendingJobs ==
    /\ j_pc = "loop"
    /\ \E q \in PendingLists : j_queue' = q
    /\ j_k' = 1
    /\ attempted' = <<>>
    /\ j_fail' = 0
    /\ j_pc' = "pending"
    /\ UNCHANGED <<live, m_i, m_ran, m_fail>>
    /\ UNCHANGED ccVars
    /\ UNCHANGED <<baseVars, notJobs>>

JobsNext ==
    \/ JobLaunch
    \/ JobExit
    \/ MainLaunch
    \/ MainChildExit
    \/ MainExit
    \/ JobsReturned
    \/ RunPendingJobs
    \/ CcGetAllValues
    \/ CcProcessRow
    \/ CcComplete

MoreOff == MirrorOff /\ HistOff /\ EdgexOff /\ LlpOff /\ ConcOff /\ SchedOff /\ ApyOff /\ CcOff /\ JobsOff

(***************************************************************************)
(* The specifications.                                                     *)
(***************************************************************************)
SheetOff ==
    /\ sheet = EmptySheet
    /\ job = "none"
    /\ now = 0
    /\ pc = "off"
    /\ balance = 0
    /\ date_str = NoDate
    /\ row_num = 0
    /\ outcome = "none"
    /\ clean = TRUE
    /\ prev = NoPrev
    /\ reads = NoReads

Init == InitSheet /\ RetryOff /\ ScrapeOff /\ DeriveOff /\ MoreOff

Next == SheetNext

Spec == Init /\ [][Next]_vars

InitRetrySpec == SheetOff /\ InitRetry /\ ScrapeOff /\ DeriveOff /\ MoreOff

SpecRetry == InitRetrySpec /\ [][RetryNext]_vars

InitScrapeSpec == SheetOff /\ RetryOff /\ InitScrape /\ DeriveOff /\ MoreOff

SpecScrape == InitScrapeSpec /\ [][ScrapeNext]_vars

InitAlpRunSpec == SheetOff /\ RetryOff /\ InitAlpRun /\ DeriveOff /\ MoreOff

SpecAlpRun == InitAlpRunSpec /\ [][AlpRunNext]_vars

InitDeriveSpec == SheetOff /\ RetryOff /\ ScrapeOff /\ InitDerive /\ MoreOff

SpecDerive == InitDeriveSpec /\ [][DeriveNext]_vars

InitMirrorSpec == SheetOff /\ RetryOff /\ ScrapeOff /\ DeriveOff /\ InitMirror /\ HistOff /\ EdgexOff /\ LlpOff /\ ConcOff /\ SchedOff /\ ApyOff /\ CcOff /\ JobsOff

SpecMirror == InitMirrorSpec /\ [][MirrorNext]_vars

InitHistSpec == SheetOff /\ RetryOff /\ ScrapeOff /\ DeriveOff /\ MirrorOff /\ InitHist /\ EdgexOff /\ LlpOff /\ ConcOff /\ SchedOff /\ ApyOff /\ CcOff /\ JobsOff

SpecHist == InitHistSpec /\ [][HistNext]_vars

InitEdgexSpec == SheetOff /\ RetryOff /\ ScrapeOff /\ DeriveOff /\ MirrorOff /\ HistOff /\ InitEdgex /\ LlpOff /\ ConcOff /\ SchedOff /\ ApyOff /\ CcOff /\ JobsOff

SpecEdgex == InitEdgexSpec /\ [][EdgexNext]_vars

InitLlpSpec == SheetOff /\ RetryOff /\ ScrapeOff /\ DeriveOff /\ MirrorOff /\ HistOff /\ EdgexOff /\ InitLlp /\ ConcOff /\ SchedOff /\ ApyOff /\ CcOff /\ JobsOff

SpecLlp == InitLlpSpec /\ [][LlpNext]_vars

InitConcSpec == SheetOff /\ RetryOff /\ ScrapeOff /\ DeriveOff /\ MirrorOff /\ HistOff /\ EdgexOff /\ LlpOff /\ InitConc /\ SchedOff /\ ApyOff /\ CcOff /\ JobsOff

InitSchedSpec == SheetOff /\ RetryOff /\ ScrapeOff /\ DeriveOff /\ MirrorOff /\ HistOff /\ EdgexOff /\ LlpOff /\ ConcOff /\ InitSched /\ ApyOff /\ CcOff /\ JobsOff

SpecSched == InitSchedSpec /\ [][SchedNext]_vars

InitApySpec == SheetOff /\ RetryOff /\ ScrapeOff /\ DeriveOff /\ MirrorOff /\ HistOff /\ EdgexOff /\ LlpOff /\ ConcOff /\ SchedOff /\ InitApy /\ CcOff /\ JobsOff

SpecApy == InitApySpec /\ [][ApyNext]_vars

SpecConc == InitConcSpec /\ [][ConcNext]_vars

InitCcSpec == SheetOff /\ RetryOff /\ ScrapeOff /\ DeriveOff /\ MirrorOff /\ HistOff /\ EdgexOff /\ LlpOff /\ ConcOff /\ SchedOff /\ ApyOff /\ InitCc /\ JobsOff

SpecCc == InitCcSpec /\ [][CcNext]_vars

InitJobsSpec == SheetOff /\ RetryOff /\ ScrapeOff /\ DeriveOff /\ MirrorOff /\ HistOff /\ EdgexOff /\ LlpOff /\ ConcOff /\ SchedOff /\ ApyOff /\ InitCcIdle /\ InitJobs

SpecJobs == InitJobsSpec /\ [][JobsNext]_vars

(***************************************************************************)
(* Claims about the date-keyed sheet jobs.                                 *)
(***************************************************************************)
RowsWithKey(d) == {r \in Rows : sheet[r][1] = d}

\* C1: when append_row runs a second time on the same GMT+7 date, after an
\* append_row that ended Written or Skipped, and no worksheet request of either
\* run fails, the second run ends Skipped and leaves the worksheet unchanged.
C1_SecondRunIsSkipped ==
    [][ ( /\ pc = "append" /\ pc' # "append"
          /\ prev.clean /\ prev.outcome \in {"Written", "Skipped"}
          /\ prev.date = gmt7_date
          /\ (IF pc' = "idle" THEN prev'.clean ELSE clean') )
        => ( /\ pc' = "idle" /\ outcome' = "Skipped"
             /\ sheet' = sheet
             /\ RowsWithKey(prev.date) # {} ) ]_vars

\* C1 witness: a run was Written, the next run on that date was Skipped, no
\* request failed, and the date is in exactly one row.
C1_Witness ==
    /\ pc = "idle" /\ prev.outcome = "Skipped" /\ prev.clean
    /\ prev.pred = "Written"
    /\ Cardinality(RowsWithKey(prev.date)) = 1

\* C2: column A never holds the same date key in more than one row.
C2_NoDuplicateKey ==
    \A r1, r2 \in Rows :
        (r1 # r2 /\ IsDateKey(sheet[r1][1])) => sheet[r1][1] # sheet[r2][1]

\* C3: a step of append_row changes no cell outside columns A-D and F of the
\* row it chose: E and G-K of that row and every other row keep their contents.
C3_PartialWriteFrame ==
    [][ \A r \in Rows, c \in Cols :
          sheet'[r][c] # sheet[r][c] => (r = row_num /\ c \in RangeAD \cup RangeF)
      ]_vars

\* C3 witness: a record was appended into a row whose E and G-K cells were
\* already filled, and they still are.
C3_Witness ==
    /\ pc = "idle" /\ outcome = "Written"
    /\ \E r \in Rows :
         /\ IsDateKey(sheet[r][1]) /\ sheet[r][6] # ""
         /\ \A c \in Cols \ (RangeAD \cup RangeF) : sheet[r][c] = "other"

\* C4: the row chosen for the write holds no previously written record.
C4_ChosenRowIsFree ==
    (pc = "writeAD" /\ row_num \in Rows) => ~IsDateKey(sheet[row_num][1])

\* C5: when no run is in progress, every row whose column A holds a date key
\* also holds the record's value in column F.
C5_KeyImpliesValue ==
    pc = "idle" => \A r \in Rows : IsDateKey(sheet[r][1]) => sheet[r][6] # ""

(***************************************************************************)
(* Claims about the retry functions.                                       *)
(***************************************************************************)
\* C6: with max_attempts n >= 1 and an operation that raises on its first k
\* calls and then succeeds: if k < n the retry function returns that success
\* after exactly k+1 invocations; otherwise the operation is invoked exactly n
\* times and the retry function returns the exhausted signal.
C6_AttemptCount ==
    (rpc = "returned" /\ max_attempts >= 1 /\ script.mode = "raise") =>
        IF script.k < max_attempts
        THEN /\ calls = script.k + 1 /\ succeeded
             /\ rresult = SuccessResult(rkind, script.value)
        ELSE /\ calls = max_attempts /\ ~succeeded
             /\ rresult = ExhaustedResult(rkind)

\* C6 witness: the operation failed twice and succeeded on the third of three.
C6_Witness ==
    /\ rpc = "returned" /\ max_attempts = 3 /\ script.mode = "raise"
    /\ script.k = 2 /\ calls = 3 /\ succeeded

\* C7 (as stated): the retry function never lets the exception escape, and it
\* returns the exhausted value (None / False) only when no invocation succeeded.
C7_ExhaustedIsDistinct ==
    rpc = "returned" =>
        /\ rresult # "raised"
        /\ (rresult \in {"None", "False"} => ~succeeded)

\* C7 (amended): the retry function never lets the exception escape; when no
\* invocation succeeded it returns None / False; and a successful call returns
\* None / False only when it is execute_binance_api_with_retry and the operation
\* itself returned None.
C7_ExhaustedIsDistinctUnlessNone ==
    rpc = "returned" =>
        /\ rresult # "raised"
        /\ (~succeeded => rresult \in {"None", "False"})
        /\ (succeeded /\ rresult \in {"None", "False"}) =>
               (rkind = "api" /\ OpOutcome(script, calls) = "None")

\* C7 witness: every one of at least two attempts raised and the retry function
\* returned its exhausted value.
C7_Witness ==
    /\ rpc = "returned" /\ max_attempts >= 2 /\ calls = max_attempts
    /\ ~succeeded /\ rresult = ExhaustedResult(rkind)

\* C8: when get_binance_data fails on a fetch whose failure is transient (the
\* operation fails on its first calls and would then answer), max_attempts
\* tries of that fetch have been made.
C8_TransientAbsorbed ==
    (gbd = "APIError" /\ script.k >= 1 /\ script.value \in {"list", "price"})
        => calls >= max_attempts

(***************************************************************************)
(* Claims about the price strategies.                                      *)
(***************************************************************************)
\* the candidates of a document in priority order: the three text patterns,
\* the price divs in document order, then each script's price key and its
\* ALP ... USD stretch; a strategy that matches nothing has no candidate
TextCandidates(d) ==
    LET one(p) == IF FirstMatch(d.text, p) = 0 THEN <<>>
                  ELSE <<d.text[FirstMatch(d.text, p)].num>>
    IN  one(1) \o one(2) \o one(3)

RECURSIVE DivCandidates(_, _)
DivCandidates(text, i) ==
    IF i > Len(text) THEN <<>>
    ELSE (IF text[i].div /\ text[i].form = "full" THEN <<text[i].num>> ELSE <<>>)
             \o DivCandidates(text, i + 1)

RECURSIVE ScriptCandidates(_, _)
ScriptCandidates(scripts, i) ==
    IF i > Len(scripts) THEN <<>>
    ELSE (IF scripts[i].key # "" THEN <<scripts[i].key>> ELSE <<>>)
             \o (IF scripts[i].alp # "" THEN <<scripts[i].alp>> ELSE <<>>)
             \o ScriptCandidates(scripts, i + 1)

Candidates(d) ==
    TextCandidates(d) \o DivCandidates(d.text, 1) \o ScriptCandidates(d.scripts, 1)

ValidNumeral(n) == Float(n) # <<>> /\ InBound(Float(n)[1])

\* the first candidate, in priority order, that passes the bound (<<>> if none)
FirstValid(d) ==
    LET c    == Candidates(d)
        good == {i \in 1..Len(c) : ValidNumeral(c[i])}
    IN  IF good = {} THEN <<>>
        ELSE Float(c[CHOOSE i \in good : \A q \in good : i <= q])

\* C9: the price scrape_alp_data returns is the candidate of the first
\* strategy, in priority order, whose candidate passes the validation bound.
C9_FirstValidWins ==
    spc = "scraped" => result.price = FirstValid(doc)

\* C10: every price scrape_alp_data returns, and every price written to the
\* sheet, lies strictly between 0.01 and 1,000,000.
C10_PriceInBound ==
    /\ (spc \in {"scraped", "written"} => InBound(result.price[1]))
    /\ (alp_row # <<>> => InBound(alp_row[1]))

(***************************************************************************)
(* Claims about the ALP run.                                               *)
(***************************************************************************)
\* a percentage (in thousandths) lies in [0, 10000]
PctInBound(v) == 0 <= v /\ v <= 10000000

\* C11: the APY that scrape_alp_data returns, and that the run carries to the
\* sheet write, lies in [0, 10000].
C11_ApyInBound ==
    (spc \in {"scraped", "balanced", "written"} /\ data.apy # <<>>)
        => PctInBound(data.apy[1])

\* C12: when no price strategy has a candidate that passes the bound, the run
\* ends with an error and appends no row.
C12_AbsenceIsError ==
    FirstValid(doc) = <<>> =>
        (spc \in {"fetched", "failed"} /\ alp_sheet.rows = <<>> /\ alp_row = <<>>)

\* C13: every row update_google_sheet appended holds all the fields of the
\* record: price, TVL, APY and token amount.
C13_WrittenRecordComplete ==
    \A i \in 1..Len(alp_sheet.rows) :
        /\ alp_sheet.rows[i].price # <<>>
        /\ alp_sheet.rows[i].tvl # ""
        /\ alp_sheet.rows[i].apy # ""
        /\ alp_sheet.rows[i].amount # ""

\* C14: the invocations of one scheduling period leave at most one record of
\* that period in the worksheet.
C14_OneRowPerPeriod == Len(alp_sheet.rows) <= 1

\* the required parameters of the ALP job are set and well formed
RequiredConfig(e) == e.credentials = "ok" /\ e.sheet_id /\ e.wallet

\* C19: when a required configuration parameter is missing or malformed, the
\* run issues no fetch, appends no row, and ends with a failure status.
C19_ConfigErrorIsFatal ==
    ~RequiredConfig(env) =>
        /\ spc \notin {"fetched", "scraped", "balanced", "written"}
        /\ alp_sheet.rows = <<>>
        /\ (spc = "failed" => exit_code # 0)

(***************************************************************************)
(* Claims about the derivations.                                           *)
(***************************************************************************)
\* the valuation rule: shares_held * share_price (to the cent) when the vault
\* reports a share price above 0, otherwise the principal
ShareRule(rec, reply) ==
    IF reply.kind = "number" /\ reply.sp > 0
    THEN Round2(rec.shares[1] * reply.sp)
    ELSE Round2(rec.principal)

\* C15: for a pool position with a shares_amount, fetch_lighter_data returns a
\* record whose pool value is shares_held * share_price when the reported share
\* price is above 0 and the principal_amount otherwise, whatever the reply of
\* the pool query is.
C15_ShareValuation ==
    (dpc = "done" /\ llp_out.status # "none" /\ llp_in.account = "ok"
       /\ llp_in.lit.shares # <<>>) =>
        /\ llp_out.status = "data"
        /\ llp_out.pool_values[1] = ShareRule(llp_in.lit, llp_in.lit_reply)

C17_UnavailableIsExplicit ==
    dpc = "done" =>
        /\ gs_out.status = "returned" =>
              /\ (gs_in[1] = <<>> /\ gs_in[2] = <<>>) => gs_out.value = <<>>
              /\ (gs_in[1] # <<>> /\ gs_in[2] # <<>>) => gs_out.value # <<>>
        /\ (llp_out.status = "data" /\ llp_in.price = <<>> /\ llp_in.short_entry = 0)
              => llp_out.price # 0

(***************************************************************************)
(* Claims about the runs of the date-keyed sheet jobs.                     *)
(***************************************************************************)
\* C18: the GS job writes to the worksheet only in a run whose wallet read and
\* vault read both succeeded.
C18_NoPartialSum ==
    [][ (job = "GS" /\ sheet' # sheet) => (reads[1] # <<>> /\ reads[2] # <<>>) ]_vars

\* C20: a run that could not fetch its balance, or whose sheet write raised,
\* ends with a non-zero exit status and is not logged by the scheduler as
\* completed successfully.
C20_FailureSignalled ==
    (pc = "idle" /\ outcome \in {"Failed", "Raised"}) =>
        /\ ExitStatus(outcome) # 0
        /\ run_update_morpho_sheet(ExitStatus(outcome)) # "completed successfully"

\* C21: an invocation goes from the fetch to the key check to the write in that
\* order and ends Written, Skipped or Failed (an exception that ends the run
\* counts as Failed); it goes on from the key check towards the write only when
\* the date key was read and is not in column A; and it writes A-D and F at
\* most once.
C21_StateMachine ==
    [][ /\ (pc = "idle" /\ pc' # "idle") => pc' = "append"
        /\ (pc = "append" /\ pc' # "append") =>
              (pc' = "find" \/ (pc' = "idle" /\ outcome' = "Skipped"))
        /\ (pc = "append" /\ pc' = "find") =>
              gmt7_date \notin {sheet[r][1] : r \in {q \in Rows : IsDateKey(sheet[q][1])}}
        /\ (pc = "find" /\ pc' # "find") => pc' = "writeAD"
        /\ (pc = "writeAD" /\ pc' # "writeAD") =>
              (pc' = "writeF" \/ (pc' = "idle" /\ outcome' = "Raised"))
        /\ (pc = "writeF" /\ pc' # "writeF") =>
              (pc' = "idle" /\ outcome' \in {"Written", "Raised"})
        /\ (pc' = "idle" /\ outcome' # "none") =>
              outcome' \in {"Written", "Skipped", "Failed", "Raised"}
        /\ (sheet' # sheet) => pc \in {"writeAD", "writeF"}
      ]_vars

\* C22: a run mutates the store only after its fetch succeeded, and a run whose
\* fetch failed ends with the store as it found it.
C22_NoMutationBeforeFetch ==
    [][ /\ (dw_sheet' # dw_sheet) => dw_fetch = "ok"
        /\ (dw_pc' = "done" /\ dw_fetch' = "failed") => dw_sheet' = dw_found'
      ]_vars

\* C24: a transaction is skipped as already present only when the store holds a
\* record of the same wallet with its id and type.
C24_ScopedKeys ==
    [][ (h_pc = "process" /\ h_i' = h_i + 1 /\ h_last' = "skipped") =>
            \E k \in 1..Len(fb) : fb[k] = history[h_i] ]_vars

\* C25: the store holds at most one record for each (transaction id,
\* transaction type) pair.
C25_OneRecordPerEvent ==
    \A j, k \in 1..Len(fb) :
        (fb[j].id = fb[k].id /\ fb[j].type = fb[k].type) => j = k

\* C27: column D holds each timestamp in at most one row, every record that
\* fill_google_sheet writes goes into a row whose A and D were empty, and no
\* cell of column E changes.
C27_EdgexNewRecordsOnly ==
    [][ /\ \A r1, r2 \in Rows \ {1} :
              (r1 # r2 /\ e_sheet'[r1].d # "") => e_sheet'[r1].d # e_sheet'[r2].d
        /\ (e_pc = "loop" /\ e_sheet' # e_sheet) =>
              (e_sheet[e_row'].a = "" /\ e_sheet[e_row'].d = "")
        /\ \A r \in Rows : e_sheet'[r].e = e_sheet[r].e
      ]_vars

\* the rows of worksheet 'LLP' whose cell A starts with the date of a day
LlpRowsOfDay(d) == {r \in Rows : LlpPrefix10(l_sheet[r].a) = DateStr(d) /\ l_sheet[r].a # ""}

\* C26: after two runs of update_llp_sheet on the same calendar date, in which
\* the fetch and every worksheet request succeeded, the sheet holds exactly one
\* row for that date, whether the worksheet began with a header row or without.
C26_LlpOneRowPerDate ==
    (l_pc = "done" /\ l_runs = 2 /\ l_days[1] = l_days[2] /\ l_clean /\ api_llp # <<>>)
        => Cardinality(LlpRowsOfDay(l_days[1])) = 1

\* C23: when two concurrent invocations of one job have both ended, at most one
\* row holds the date key, and two invocations that both wrote did not write
\* into the same row.
C23_ConcurrentAtMostOnce ==
    (\A i \in Invocations : procs[i].pc = "done") =>
        /\ Cardinality({r \in Rows : c_sheet[r][1] = DateStr(0)}) <= 1
        /\ (\A i \in Invocations : procs[i].outcome = "Written")
              => procs[1].row_num # procs[2].row_num

C29_OrderInvariant ==
    a_pc = "done" => a_out2 = a_out

\* C30: the deriver returns "unavailable" for fewer than 2 samples and for
\* elapsed_days <= 0, and for every input it returns a number or "unavailable"
\* and does not raise.
C30_FailsClosed ==
    a_pc = "done" =>
        /\ Len(a_series) < 2 => a_out = Unavailable
        /\ (Len(a_series) >= 1 /\ ElapsedDays(a_series, a_P) <= 0) => a_out = Unavailable
        /\ a_out.kind \in {"number", "unavailable"}

\* C31 as stated: the retried derivation of a series with at least 2 samples
\* yields a number.
C31_FallbackYieldsNumber ==
    (a_pc = "retried" /\ Len(a_series) >= 2) => a_retry.out.kind = "number"

\* C31, amended: the retry uses P' = min(P, available_days); for a series with
\* at least 2 samples whose span is at least a day it does not yield
\* "unavailable", and it yields a number exactly when the reference price is
\* not 0; for a series whose samples share one timestamp it yields "unavailable".
C31_FallbackOnPositiveSpan ==
    (a_pc = "retried" /\ Len(a_series) >= 2) =>
        /\ a_retry.P = FallbackLookback(a_P, AvailableDays(a_series))
        /\ a_retry.P <= a_P
        /\ AvailableDays(a_series) > 0 =>
              /\ a_retry.out.kind # "unavailable"
              /\ a_retry.out.kind = "number" <=> ReferencePrice(a_series, a_retry.P) # 0
        /\ AvailableDays(a_series) = 0 => a_retry.out = Unavailable

C31_Witness ==
    /\ a_pc = "retried"
    /\ Len(a_series) >= 2
    /\ a_P = 2
    /\ a_retry.P = 1
    /\ a_retry.out.kind = "number"
    /\ a_retry.out.num > 0

(***************************************************************************)
(* C32: the price strategies with one attempt taken as not matching. An    *)
(* attempt is a text pattern, a price div, a script's price key or a       *)
(* script's ALP ... USD stretch.                                           *)
(***************************************************************************)
Attempts(d) ==
    [kind : {"pattern"}, at : 1..3]
        \cup [kind : {"div"}, at : 1..Len(d.text)]
        \cup [kind : {"key", "alp"}, at : 1..Len(d.scripts)]

\* the attempt matches and its candidate does not parse or fails the bound
RejectedCandidate(d, a) ==
    IF a.kind = "pattern"
    THEN FirstMatch(d.text, a.at) # 0
           /\ ~ValidNumeral(d.text[FirstMatch(d.text, a.at)].num)
    ELSE IF a.kind = "div"
    THEN d.text[a.at].div /\ PatternMatches(1, d.text[a.at].form)
           /\ ~ValidNumeral(d.text[a.at].num)
    ELSE IF a.kind = "key"
    THEN d.scripts[a.at].key # "" /\ ~ValidNumeral(d.scripts[a.at].key)
    ELSE d.scripts[a.at].alp # "" /\ ~ValidNumeral(d.scripts[a.at].alp)

\* the document in which the attempt has nothing to match: for a pattern,
\* Method 1 without that pattern; for a div, the place outside a price div;
\* for a script, the script without that statement
RECURSIVE Method1Without(_, _, _)
Method1Without(text, p, skip) ==
    IF p > 3 THEN NoPrice
    ELSE IF p = skip THEN Method1Without(text, p + 1, skip)
    ELSE LET m == FirstMatch(text, p)
         IN  IF m = 0 THEN Method1Without(text, p + 1, skip)
             ELSE LET f == Float(text[m].num)
                  IN  IF f # <<>> /\ InBound(f[1])
                      THEN [price |-> f, by |-> "text"]
                      ELSE Method1Without(text, p + 1, skip)

ScrapePriceWithout(d, a) ==
    LET text2    == IF a.kind = "div"
                    THEN [d.text EXCEPT ![a.at].div = FALSE] ELSE d.text
        scripts2 == IF a.kind = "key" THEN [d.scripts EXCEPT ![a.at].key = ""]
                    ELSE IF a.kind = "alp" THEN [d.scripts EXCEPT ![a.at].alp = ""]
                    ELSE d.scripts
        r1 == IF a.kind = "pattern" THEN Method1Without(d.text, 1, a.at)
              ELSE Method1(d.text, 1)
        r2 == IF ~Found(r1.price) THEN Method2(text2, 1) ELSE r1
        r3 == Method5(scripts2, 1, r2)
    IN  IF Found(r3.price) THEN r3 ELSE NoPrice

\* C32: when an attempt matches a candidate that does not parse or fails the
\* bound, the outcome of scrape_alp_data (the price and the strategy it came
\* from, or the error for no price) is the one it has when that attempt
\* matches nothing.
C32_RejectedLikeNoMatch ==
    spc \in {"scraped", "failed"} =>
        \A a \in Attempts(doc) :
            RejectedCandidate(doc, a) => result = ScrapePriceWithout(doc, a)

\* C33: the retry function sleeps only between attempts: a step that sleeps is
\* a failed attempt after which the loop goes on to the next attempt, the
\* step that returns (a success or the last failed attempt) does not sleep,
\* and a call that has returned after a >= 1 attempts has slept a - 1 times.
C33_SleepsBetweenAttempts ==
    [][ /\ sleeps' = sleeps + 1 =>
            /\ rpc = "loop" /\ rpc' = "loop"
            /\ calls' = calls + 1
            /\ OpOutcome(script, calls') = "raise"
            /\ attempt' = attempt + 1
        /\ (rpc = "loop" /\ rpc' = "returned") => sleeps' = sleeps
        /\ (rpc = "loop" /\ rpc' = "loop") => sleeps' = calls'
        /\ (rpc' = "returned" /\ calls' >= 1) => sleeps' = calls' - 1
      ]_vars

C33_Witness ==
    /\ rpc = "returned"
    /\ rkind = "cell"
    /\ calls = 3
    /\ sleeps = 2
    /\ rresult = "False"

(***************************************************************************)
(* Claims about the Cash&Carry processor.                                  *)
(***************************************************************************)
\* the cell is empty or holds only blanks
Blank(t) == t = "" \/ t = " "

\* C34: a step of process_sheet_data changes only cells K, L, M, and only of
\* rows from row 3 on whose wallet is the processor's wallet name, whose
\* contract symbol and start date are not blank, whose end date is blank and
\* whose symbol is that of a fetched position; all other rows, rows 1-2 and
\* the other columns of the rows it writes stay as they were.
C34_RowSelectionAndFrame ==
    [][ \A r \in CcRows :
          cc_sheet'[r] # cc_sheet[r] =>
              /\ r >= 3
              /\ cc_sheet[r].wallet = WalletName
              /\ ~Blank(cc_sheet[r].symbol)
              /\ ~Blank(cc_sheet[r].start)
              /\ Blank(cc_sheet[r].end)
              /\ \E i \in 1..Len(cc_positions) : cc_positions[i].symbol = cc_sheet[r].symbol
              /\ cc_sheet'[r].wallet = cc_sheet[r].wallet
              /\ cc_sheet'[r].symbol = cc_sheet[r].symbol
              /\ cc_sheet'[r].start = cc_sheet[r].start
              /\ cc_sheet'[r].end = cc_sheet[r].end
              /\ cc_sheet'[r].rest = cc_sheet[r].rest
      ]_vars

C34_Witness ==
    /\ cc_pc = "done"
    /\ cc_sheet[2] = CcRow("Wallet 1", "BTCUSD_PERP", "2025-01-01", "")
    /\ cc_sheet[3].k = "61000.5" /\ cc_sheet[3].l = "2.5" /\ cc_sheet[3].m = BtcPrice
    /\ cc_sheet[4] = CcRow("Wallet 1", "BTCUSD_PERP", "2025-01-01", "2025-02-01")

\* C35: update_sheet_row reports success exactly when its three cell writes
\* succeeded; a row counted as processed holds in K, L and M the values of
\* the one matching position and the BTC price; a row with a write that
\* exhausted its retries is not counted, and processed_count counts exactly
\* the rows whose three writes succeeded.
C35_ProcessedMeansAllWritten ==
    cc_pc \in {"loop", "done"} =>
        /\ \A r \in CcRows :
              /\ cc_log[r].outcome = "processed" <=>
                    (cc_log[r].k /\ cc_log[r].l /\ cc_log[r].m)
              /\ cc_log[r].outcome = "processed" =>
                    LET mp == find_matching_position(cc_sheet[r].symbol, cc_positions)
                    IN  /\ mp # <<>>
                        /\ CcFloat(mp[1].markPrice) = <<cc_sheet[r].k>>
                        /\ Negated(CcFloat(mp[1].notionalValue)[1]) = cc_sheet[r].l
                        /\ cc_sheet[r].m = BtcPrice
        /\ processed_count = Cardinality({r \in CcRows : cc_log[r].outcome = "processed"})

C35_Witness ==
    /\ cc_pc = "done"
    /\ cc_log[3].outcome = "failed" /\ cc_log[3].k /\ ~cc_log[3].l /\ cc_log[3].m
    /\ cc_sheet[3].k = "61000.5" /\ cc_sheet[3].l = "old"
    /\ cc_log[4].outcome = "processed"
    /\ processed_count = 1

\* C36: failure is isolated per unit of work: a run of process_sheet_data
\* that completes has given every row from row 3 on its pass, whatever the
\* passes before it ended in, and has written the cells of every eligible row
\* with usable position data; a main.py that reaches its end has called
\* run_script for each of its scripts; and when the scheduler's run functions
\* have returned, every job of the startup runs or of the pending jobs has
\* been attempted and the loop is entered again
C36_FailureIsolated ==
    /\ cc_pc = "done" =>
         \A r \in CcRows : r >= 3 =>
           /\ cc_log[r].outcome # "none"
           /\ LET row == cc_all_values[r]
                  mp  == find_matching_position(row.symbol, cc_positions)
              IN  /\ should_process_row(row.wallet, row.symbol, row.start, row.end)
                  /\ mp # <<>>
                  /\ process_position_data(mp[1], BtcPrice) # <<>>
                  => cc_log[r].outcome \in {"processed", "failed"}
    /\ m_i > Len(MainScripts) => m_ran = MainScripts
    /\ j_pc = "loop" => attempted = j_queue
    /\ j_pc \in {"startup", "pending"} /\ j_k > Len(j_queue) => attempted = j_queue

\* a row failed and a later row was processed, a script of main.py failed
\* and main.py ran the scripts after it, a pending job failed and the job
\* after it was launched
C36_Witness ==
    /\ j_pc = "pending"
    /\ j_fail = 1
    /\ j_k = 2
    /\ attempted = <<"edgex_google_sheet.py", "main.py">>
    /\ m_i > Len(MainScripts)
    /\ m_fail \in 1..(Len(MainScripts) - 1)
    /\ m_ran = MainScripts
    /\ \E r1, r2 \in CcRows :
         /\ r1 < r2
         /\ cc_log[r1].outcome = "failed"
         /\ cc_log[r2].outcome = "processed"

\* C38: the scheduler launches its jobs one at a time, and so does main.py:
\* at no time has either of them more than one subprocess that has not
\* exited, and a job is launched only after the one before it has returned
C38_OneAtATime ==
    /\ \A i, k \in 1..Len(live) : live[i].parent = live[k].parent => i = k
    /\ Len(live) <= 2
    /\ \A i \in 1..Len(live) :
         live[i].parent = "scheduler" =>
           /\ j_k \in 1..Len(j_queue)
           /\ live[i].script = j_queue[j_k]
           /\ Len(attempted) = j_k

\* main.py runs one of its scripts under the scheduler's job, after an
\* earlier script has exited
C38_Witness ==
    /\ Len(live) = 2
    /\ live[1] = [parent |-> "scheduler", script |-> "main.py"]
    /\ live[2] = [parent |-> "main.py", script |-> "cc_wallet_289.py"]
    /\ j_pc = "pending"
    /\ j_k = 2

\* a run has ended with no failed call, after a run that fetched the same
\* list, wrote records and was aborted by a failed write
AfterPartialBatch ==
    /\ e_pc = "done"
    /\ api_data # <<>>
    /\ ~e_trace.faults
    /\ e_trace.prev # <<>>
    /\ e_trace.prev[1].aborted
    /\ e_trace.prev[1].wrote # {}
    /\ e_trace.prev[1].list = api_data

\* the rows of worksheet 'EdgeX' whose cell D holds the timestamp
EdgexRowsOf(ts) == {r \in Rows : e_sheet[r].d = TsText(ts)}

\* C37: when a run of fill_google_sheet was aborted by a failed write after it
\* had written records, and a later run with the same list has no failure, the
\* sheet at its end holds every timestamp of the list in exactly one row, and
\* the rows the aborted run wrote are as it left them.
C37_ConvergesAfterPartialBatch ==
    AfterPartialBatch =>
        /\ \A i \in 1..Len(api_data) : Cardinality(EdgexRowsOf(api_data[i])) = 1
        /\ \A r \in e_trace.prev[1].wrote : e_sheet[r] = e_trace.prev[1].sheet[r]

\* C39: after a run of deposit_withdraw_sheet_updater in which the clear, the
\* read of Firebase and the update of the sheet all succeeded, the rows from
\* row 2 on are one row for each transaction of Firebase and no other row,
\* in ascending order of (date, time), and row 1 is the header as before.
C39_RebuiltSorted ==
    (dw_pc = "done" /\ dw_fetch = "ok" /\ dw_update = "ok") =>
        /\ Len(dw_sheet) = Cardinality(ref_data)
        /\ \A t \in ref_data : \E i \in 1..Len(dw_sheet) : dw_sheet[i] = t
        /\ \A i, k \in 1..Len(dw_sheet) :
             i < k =>
               \/ TxDate(dw_sheet[i]) < TxDate(dw_sheet[k])
               \/ /\ TxDate(dw_sheet[i]) = TxDate(dw_sheet[k])
                  /\ TxTime(dw_sheet[i]) <= TxTime(dw_sheet[k])
        /\ dw_row1 = DwHeader

\* the second run rebuilds a sheet that held fewer rows, from transactions of
\* two dates of which two share their time
C39_Witness ==
    /\ dw_pc = "done"
    /\ dw_fetch = "ok"
    /\ dw_update = "ok"
    /\ dw_runs = 2
    /\ Len(dw_found) = 1
    /\ ref_data = {1, 2, 3}
    /\ dw_sheet = <<1, 2, 3>>

\* C40: whatever the offset of the machine's local time, the job registered
\* with get_local_time_for_gmt_plus_7(0, 0) is due when the clock in GMT+7
\* reads 00:00.
C40_DueAtGmt7Time ==
    s_pc = "loop" => (s_next_run + 7) % 24 = 0
====
